---------------------------- MODULE Spec2Model ----------------------------
(***************************************************************************)
(* A model of the DBFFile library (src/src/dbf-file.ts): the on-disk .dbf  *)
(* file and its memo file as sequences of bytes, the DBFFile handle in     *)
(* use, a second handle parked beside it, and the four operations          *)
(* openDBF, createDBF, readRecordsFromDBF, appendRecordsToDBF plus async   *)
(* iteration.  Every `await` of a filesystem call is one step of the       *)
(* model, and every such step may fail with an I/O error.                  *)
(*                                                                         *)
(* Eight specifications share the actions: Spec (every operation on the    *)
(* C/N tables), SpecTyped (create, append, read and open over every field  *)
(* type), SpecMemo (tables with a memo file), SpecTwoReaders (two handles  *)
(* reading one file in turn), SpecWide (create and strict open of a table  *)
(* whose record is longer than 32767 bytes), SpecDescriptors (create on    *)
(* one descriptor at the limits of the validator), SpecStamps (tables with *)
(* a T field) and SpecLayout (tables whose first field is of a known or    *)
(* unknown type and of a size the validator may or may not take).          *)
(*                                                                         *)
(* Conventions.  A byte sequence is a TLA+ sequence of 0..255; file offset *)
(* p is index p+1.  Text is a sequence of character codes.  A JavaScript   *)
(* value is a record [t |-> type tag, v |-> payload as a sequence]:        *)
(*   "string"  v = the character codes                                     *)
(*   "number"  v = <<n>>  (integral numbers only are drawn); the number    *)
(*             2147483647 + k, k > 0, is v = <<2147483647, k>>             *)
(*   "NaN"     v = <<>>                                                    *)
(*   "boolean" v = <<1>> or <<0>>                                          *)
(*   "date"    v = <<year, month, day>>  (a Date at UTC midnight), or      *)
(*             v = <<year, month, day, hours, minutes, seconds>> (UTC)     *)
(*   "null", "undefined"  v = <<>>                                         *)
(* A JavaScript object used as a record is a function from field names    *)
(* (text) to values; a key that is absent reads as undefined.              *)
(***************************************************************************)
EXTENDS Integers, Sequences, FiniteSets, TLC

(***************************************************************************)
(* Bounds of the model.                                                    *)
(***************************************************************************)
\* at most this many calls on handles (read/append/iterate) per run
MaxCalls == 2
\* at most this many calls of open and create per run
MaxHandles == 2
\* at most this many injected I/O errors per run
MaxFaults == 1
\* the largest explicit maxCount passed to readRecords
MaxReadCount == 2

(***************************************************************************)
(* Program constants.                                                      *)
(***************************************************************************)
recordCountPerBuffer == 1000
defaultMaxCount == 10000000
iterChunk == 100

(***************************************************************************)
(* Generic helpers.                                                        *)
(***************************************************************************)
Min(a, b) == IF a < b THEN a ELSE b
Max(a, b) == IF a > b THEN a ELSE b

Rep(b, n) == [i \in 1..n |-> b]

RECURSIVE Pow2(_)
Pow2(n) == IF n <= 0 THEN 1 ELSE 2 * Pow2(n - 1)

(***************************************************************************)
(* Node Buffer and fs primitives.                                          *)
(***************************************************************************)
\* Buffer.alloc(n): n zero bytes
BufferAlloc(n) == Rep(0, Max(n, 0))

\* buf with data stored from offset off on; bytes that fall outside are dropped
\* (Buffer#copy semantics)
BufPut(buf, off, data) ==
    [i \in 1..Len(buf) |->
        IF i > off /\ i <= off + Len(data) THEN data[i - off] ELSE buf[i]]

\* buf.slice(start, end)
BufSlice(buf, start, end) ==
    SubSeq(buf, Max(start, 0) + 1, Min(end, Len(buf)))

\* fs.read(fd, buffer, 0, length, position): the bytes the file holds in
\* [position, position + length); fewer when the file ends before
FsRead(bytes, position, length) ==
    IF position < 0 \/ position >= Len(bytes) THEN <<>>
    ELSE SubSeq(bytes, position + 1, Min(position + length, Len(bytes)))

\* the buffer after such a read: the bytes read land at offset 0, the rest of
\* the buffer keeps what it held
BufAfterRead(buf, bytes, position, length) ==
    BufPut(buf, 0, FsRead(bytes, position, Min(length, Len(buf))))

\* fs.write(fd, buffer, 0, length, position): the file grows as needed, a gap
\* reads as zeros
FsWrite(bytes, position, data) ==
    [i \in 1..Max(Len(bytes), position + Len(data)) |->
        IF i > position /\ i <= position + Len(data) THEN data[i - position]
        ELSE IF i <= Len(bytes) THEN bytes[i] ELSE 0]

\* buf.readUInt8(off); a read outside the buffer throws (modelled as -1)
ReadUInt8(buf, off) == IF off + 1 <= Len(buf) /\ off >= 0 THEN buf[off + 1] ELSE -1

ReadUInt16LE(buf, off) == buf[off + 1] + 256 * buf[off + 2]

\* buf.readInt16LE(off): two's complement
ReadInt16LE(buf, off) ==
    LET u == ReadUInt16LE(buf, off)
    IN  IF u >= 32768 THEN u - 65536 ELSE u

\* buf.readInt32LE(off): two's complement, without leaving 32-bit arithmetic
ReadInt32LE(buf, off) ==
    LET lo == buf[off + 1] + 256 * buf[off + 2] + 65536 * buf[off + 3]
        hi == buf[off + 4]
    IN  IF hi < 128 THEN lo + 16777216 * hi
        ELSE (lo + 16777216 * (hi - 128)) - 2147483647 - 1

\* buf.readUInt32LE(off), for a value below 2^31
ReadUInt32LE(buf, off) ==
    buf[off + 1] + 256 * buf[off + 2] + 65536 * buf[off + 3] + 16777216 * buf[off + 4]

\* buf.readUInt16BE(off)
ReadUInt16BE(buf, off) == 256 * buf[off + 1] + buf[off + 2]

\* buf.readInt32BE(off): the same four bytes in the opposite order
ReadInt32BE(buf, off) ==
    ReadInt32LE(<<buf[off + 4], buf[off + 3], buf[off + 2], buf[off + 1]>>, 0)

\* the bytes buf.writeUInt16LE(v) stores
UInt16LE(v) == <<v % 256, (v \div 256) % 256>>

\* the bytes buf.writeInt32LE(v) stores
Int32LE(v) ==
    LET w == IF v >= 0 THEN v ELSE (v + 2147483647) + 1
        top == (w \div 16777216) % 128
    IN  <<w % 256, (w \div 256) % 256, (w \div 65536) % 256,
          IF v >= 0 THEN top ELSE top + 128>>

InUInt8(v) == v >= 0 /\ v <= 255
InUInt16(v) == v >= 0 /\ v <= 65535
InInt32(v) == v >= -2147483647 - 1 /\ v <= 2147483647

(***************************************************************************)
(* JavaScript values.                                                      *)
(***************************************************************************)
Str(s) == [t |-> "string", v |-> s]
Num(n) == [t |-> "number", v |-> <<n>>]
\* the number 2147483647 + k for k > 0: one that no Int32 holds
Big(k) == [t |-> "number", v |-> <<2147483647, k>>]
IsBig(value) == value.t = "number" /\ Len(value.v) = 2
NaN == [t |-> "NaN", v |-> <<>>]
Bool(b) == [t |-> "boolean", v |-> IF b THEN <<1>> ELSE <<0>>]
Date(y, m, d) == [t |-> "date", v |-> <<y, m, d>>]
DateTime(y, m, d, h, mi, sec) == [t |-> "date", v |-> <<y, m, d, h, mi, sec>>]
InvalidDate == [t |-> "date", v |-> <<>>]
\* a double that is not an integer of the modelled range, kept as its 8 bytes
RawDouble(bytes) == [t |-> "double", v |-> bytes]
Null == [t |-> "null", v |-> <<>>]
Undefined == [t |-> "undefined", v |-> <<>>]

\* record[name]
Get(record, name) == IF name \in DOMAIN record THEN record[name] ELSE Undefined

\* value === null || typeof value === 'undefined'
IsNullish(value) == value.t \in {"null", "undefined"}

(***************************************************************************)
(* Text, number and date conversions.                                      *)
(***************************************************************************)
\* the label of the code page 437, the one encoding besides ISO-8859-1 drawn
Cp437 == "cp437"

\* The code page 437 where it is not ASCII, for the bytes that occur: 0x81 is
\* u-umlaut (U+00FC), 0xE9 is Theta (U+0398), 0xFC is superscript n (U+207F).
Cp437Char(b) ==
    CASE b < 128 -> b [] b = 129 -> 252 [] b = 233 -> 920 [] b = 252 -> 8319

Cp437Byte(c) ==
    CASE c < 128 -> c [] c = 252 -> 129 [] c = 920 -> 233 [] c = 8319 -> 252
      [] OTHER -> 63

\* iconv.encode(text, encoding) for the single-byte encodings ISO-8859-1 and
\* cp437: a character the encoding lacks becomes '?'
iconvEncode(text, encoding) ==
    [i \in 1..Len(text) |->
        IF encoding = Cp437 THEN Cp437Byte(text[i])
        ELSE IF text[i] <= 255 THEN text[i] ELSE 63]

\* iconv.decode(bytes, encoding): with ISO-8859-1 byte b is character b
iconvDecode(bytes, encoding) ==
    [i \in 1..Len(bytes) |->
        IF encoding = Cp437 THEN Cp437Char(bytes[i]) ELSE bytes[i]]

RECURSIVE Digits(_)
Digits(n) == IF n < 10 THEN <<48 + n>> ELSE Digits(n \div 10) \o <<48 + (n % 10)>>

\* Number.prototype.toString for an integral number
NumberToString(n) == IF n < 0 THEN <<45>> \o Digits(-n) ELSE Digits(n)

IsDigit(c) == c >= 48 /\ c <= 57

RECURSIVE DigitsValue(_, _, _)
\* the value of the longest digit prefix of s from index i on, acc so far
DigitsValue(s, i, acc) ==
    IF i > Len(s) \/ ~IsDigit(s[i]) THEN acc
    ELSE DigitsValue(s, i + 1, 10 * acc + (s[i] - 48))

\* parseFloat(text) on signs and digits: the longest numeric prefix, NaN when
\* there is none
parseFloat(s) ==
    LET signed == Len(s) >= 1 /\ s[1] \in {43, 45}
        first == IF signed THEN 2 ELSE 1
    IN  IF first > Len(s) \/ ~IsDigit(s[first]) THEN NaN
        ELSE LET mag == DigitsValue(s, first, 0)
             IN  Num(IF signed /\ s[1] = 45 THEN -mag ELSE mag)

RECURSIVE SkipSpaces(_)
SkipSpaces(s) == IF Len(s) > 0 /\ s[1] = 32 THEN SkipSpaces(Tail(s)) ELSE s

\* parseInt(text) on spaces, signs and digits: leading white space is skipped
parseInt(s) == parseFloat(SkipSpaces(s))

\* padLeft(n, count, '0')
RECURSIVE padLeft(_, _)
padLeft(s, count) == IF Len(s) >= count THEN s ELSE padLeft(<<48>> \o s, count)

\* the date text with the month counted from 0, as Date.getMonth() gives it:
\* C5 fails of it
formatDateZeroBasedMonth(d) ==
    padLeft(Digits(d.v[1]), 4) \o padLeft(Digits(d.v[2] - 1), 2)
        \o padLeft(Digits(d.v[3]), 2)

\* formatDate(d): d.toISOString().slice(0, 10) without the dashes
formatDate(d) ==
    padLeft(Digits(d.v[1]), 4) \o padLeft(Digits(d.v[2]), 2) \o padLeft(Digits(d.v[3]), 2)

\* parseDate(s): new Date(`YYYY-MM-DD`) of the 8 characters
parseDate(s) ==
    IF Len(s) = 8 /\ \A i \in 1..8 : IsDigit(s[i])
    THEN LET y == DigitsValue(s, 1, 0) \div 10000
             m == (DigitsValue(s, 1, 0) \div 100) % 100
             d == DigitsValue(s, 1, 0) % 100
         IN  IF m >= 1 /\ m <= 12 /\ d >= 1 /\ d <= 31 THEN Date(y, m, d)
             ELSE InvalidDate
    ELSE InvalidDate

\* Date.prototype.getTime() / 86400000, rounded down: the days from 1970-01-01
\* to the civil date (proleptic Gregorian calendar, years from 1 on)
DaysFromEpoch(y, m, d) ==
    LET yy == IF m <= 2 THEN y - 1 ELSE y
        era == yy \div 400
        yoe == yy - era * 400
        mp == IF m > 2 THEN m - 3 ELSE m + 9
        doy == (153 * mp + 2) \div 5 + d - 1
        doe == yoe * 365 + yoe \div 4 - yoe \div 100 + doy
    IN  era * 146097 + doe - 719468

\* formatVfpDateTime(d): the Julian day and the milliseconds since midnight of
\* a UTC datetime
formatVfpDateTime(d) ==
    LET hms == IF Len(d.v) = 6 THEN <<d.v[4], d.v[5], d.v[6]>> ELSE <<0, 0, 0>>
    IN  [julianDay |-> DaysFromEpoch(d.v[1], d.v[2], d.v[3]) + 2440588,
         msSinceMidnight |-> ((hms[1] * 60 + hms[2]) * 60 + hms[3]) * 1000]

\* parseVfpDateTime({julianDay, msSinceMidnight}): the civil date of the Julian
\* day by the Hatcher/Meeus algorithm, the time of day to the second, as UTC
parseVfpDateTime(julianDay, msSinceMidnight) ==
    LET s1 == julianDay + 68569
        n == (4 * s1) \div 146097
        s2 == s1 - ((146097 * n + 3) \div 4)
        i == (4000 * (s2 + 1)) \div 1461001
        s3 == s2 - ((1461 * i) \div 4) + 31
        q == (80 * s3) \div 2447
        s4 == q \div 11
        year == 100 * (n - 49) + i + s4
        month == q + 2 - 12 * s4
        day == s3 - ((2447 * q) \div 80)
        ms == msSinceMidnight
    IN  DateTime(year, month, day, ms \div 3600000, (ms % 3600000) \div 60000,
                 (ms % 60000) \div 1000)

RECURSIVE Log2(_)
Log2(a) == IF a <= 1 THEN 0 ELSE 1 + Log2(a \div 2)

\* the bytes buf.writeDoubleLE(n) stores, for an integer |n| < 1024 (IEEE 754
\* binary64, little-endian: sign, 11-bit exponent, 52-bit fraction)
DoubleLE(n) ==
    IF n = 0 THEN Rep(0, 8)
    ELSE LET a == IF n < 0 THEN -n ELSE n
             e == Log2(a)
             E == 1023 + e
             m20 == (a - Pow2(e)) * Pow2(20 - e)
         IN  <<0, 0, 0, 0, m20 % 256, (m20 \div 256) % 256,
               (E % 16) * 16 + (m20 \div 65536),
               (IF n < 0 THEN 128 ELSE 0) + (E \div 16)>>

\* buf.readDoubleLE(off)
ReadDoubleLE(buf, off) ==
    LET b == [i \in 1..8 |-> IF off + i <= Len(buf) THEN buf[off + i] ELSE 0]
        E == (b[8] % 128) * 16 + (b[7] \div 16)
        e == E - 1023
        m20 == (b[7] % 16) * 65536 + b[6] * 256 + b[5]
        neg == b[8] >= 128
    IN  IF b = Rep(0, 8) THEN Num(0)
        ELSE IF b[1] = 0 /\ b[2] = 0 /\ b[3] = 0 /\ b[4] = 0 /\ e >= 0 /\ e <= 20
                /\ m20 % Pow2(20 - e) = 0
        THEN LET a == Pow2(e) + (m20 \div Pow2(20 - e))
             IN  Num(IF neg THEN -a ELSE a)
        ELSE RawDouble(b)

(***************************************************************************)
(* Field descriptors.                                                      *)
(***************************************************************************)
Field(name, type, size) ==
    [name |-> name, type |-> type, size |-> size, decimalPlaces |-> 0]

FieldTypes == {"C", "N", "F", "L", "D", "I", "M", "T", "B"}

\* type.charCodeAt(0)
charCodeAt(type) ==
    CASE type = "C" -> 67 [] type = "N" -> 78 [] type = "F" -> 70
      [] type = "L" -> 76 [] type = "D" -> 68 [] type = "I" -> 73
      [] type = "M" -> 77 [] type = "T" -> 84 [] type = "B" -> 66
      [] type = "Y" -> 89

\* String.fromCharCode(byte), for the type letters that occur
fromCharCode(byte) ==
    CASE byte = 67 -> "C" [] byte = 78 -> "N" [] byte = 70 -> "F"
      [] byte = 76 -> "L" [] byte = 68 -> "D" [] byte = 73 -> "I"
      [] byte = 77 -> "M" [] byte = 84 -> "T" [] byte = 66 -> "B"
      [] byte = 89 -> "Y" [] OTHER -> "?"

isValidFileVersion(fileVersion) == fileVersion \in {3, 131, 139, 48}

\* validateFieldDescriptor: "ok", or the error it throws
validateFieldDescriptor(field, version) ==
    LET name == field.name
        type == field.type
        size == field.size
        decs == field.decimalPlaces
        maxDecimals == IF version = 139 THEN 18 ELSE 15
    IN  IF Len(name) < 1 THEN "Field name is too short"
        ELSE IF Len(name) > 10 THEN "Field name is too long"
        ELSE IF type \notin FieldTypes THEN "Type is not supported"
        ELSE IF size < 1 THEN "Field size is too small"
        ELSE IF type = "C" /\ size > 255 THEN "Field size is too large"
        ELSE IF type = "N" /\ size > 20 THEN "Field size is too large"
        ELSE IF type = "F" /\ size > 20 THEN "Field size is too large"
        ELSE IF type = "L" /\ size # 1 THEN "Invalid field size"
        ELSE IF type = "D" /\ size # 8 THEN "Invalid field size"
        ELSE IF type = "M" /\ size # 10 THEN "Invalid field size"
        ELSE IF type = "T" /\ size # 8 THEN "Invalid field size"
        ELSE IF type = "B" /\ size # 8 THEN "Invalid field size"
        ELSE IF decs # 0 /\ decs > maxDecimals THEN "Decimal count is too large"
        ELSE "ok"

\* for (let field of fields) validateFieldDescriptor(field, fileVersion), from
\* field i on: "ok", or what the first descriptor that fails throws
FirstInvalid(fields, i, version) ==
    LET invalid == {k \in i..Len(fields) :
                      validateFieldDescriptor(fields[k], version) # "ok"}
    IN  IF invalid = {} THEN "ok"
        ELSE validateFieldDescriptor(
                 fields[CHOOSE k \in invalid : \A m \in invalid : k <= m], version)

\* validateFieldDescriptors: "ok", or the first error thrown
validateFieldDescriptors(fields, fileVersion) ==
    IF Len(fields) > 2046 THEN "Too many fields"
    ELSE FirstInvalid(fields, 1, fileVersion)

RECURSIVE SumRange(_, _, _)
\* the sizes of fields lo..hi added up, by halves
SumRange(fields, lo, hi) ==
    IF lo > hi THEN 0
    ELSE IF lo = hi THEN fields[lo].size
    ELSE SumRange(fields, lo, (lo + hi) \div 2)
           + SumRange(fields, (lo + hi) \div 2 + 1, hi)

\* the sizes of the fields from field i on added up
SumSizes(fields, i) == SumRange(fields, i, Len(fields))

\* calculateRecordLengthInBytes: one byte for the deleted flag, then the fields
calculateRecordLengthInBytes(fields) == 1 + SumSizes(fields, 1)

\* getEncoding(encoding, field), for an encoding option given as one label
getEncoding(encoding, field) == encoding

(***************************************************************************)
(* appendRecordsToDBF: validating and encoding one record.                 *)
(***************************************************************************)
RECURSIVE validateRecordNoBoolean(_, _, _)
\* the validation without its 'L' case: C11 fails of it
validateRecordNoBoolean(fields, i, record) ==
    IF i > Len(fields) THEN [ok |-> TRUE, name |-> <<>>, msg |-> ""]
    ELSE LET name == fields[i].name
             type == fields[i].type
             value == Get(record, name)
             bad(msg) == [ok |-> FALSE, name |-> name, msg |-> msg]
         IN  IF IsNullish(value) THEN validateRecordNoBoolean(fields, i + 1, record)
             ELSE IF type = "C" /\ value.t # "string" THEN bad("expected a string")
             ELSE IF type = "C" /\ Len(value.v) > 255 THEN bad("text is too long")
             ELSE IF type \in {"N", "F", "I"} /\ value.t \notin {"number", "NaN", "double"}
                  THEN bad("expected a number")
             ELSE IF type = "D" /\ value.t # "date" THEN bad("expected a date")
             ELSE validateRecordNoBoolean(fields, i + 1, record)

RECURSIVE validateRecordFrom(_, _, _)
validateRecordFrom(fields, i, record) ==
    IF i > Len(fields) THEN [ok |-> TRUE, name |-> <<>>, msg |-> ""]
    ELSE LET name == fields[i].name
             type == fields[i].type
             value == Get(record, name)
             bad(msg) == [ok |-> FALSE, name |-> name, msg |-> msg]
         IN  IF IsNullish(value) THEN validateRecordFrom(fields, i + 1, record)
             ELSE IF type = "C" /\ value.t # "string" THEN bad("expected a string")
             ELSE IF type = "C" /\ Len(value.v) > 255 THEN bad("text is too long")
             ELSE IF type \in {"N", "F", "I"} /\ value.t \notin {"number", "NaN", "double"}
                  THEN bad("expected a number")
             ELSE IF type = "D" /\ value.t # "date" THEN bad("expected a date")
             ELSE IF type = "L" /\ value.t # "boolean" THEN bad("expected a boolean")
             ELSE validateRecordFrom(fields, i + 1, record)

\* validateRecord(fields, record): ok, or the field name and message thrown
validateRecord(fields, record) == validateRecordFrom(fields, 1, record)

\* the text the 'C' case encodes: a null or missing value was replaced by ''
TextOf(value) == IF IsNullish(value) THEN <<>> ELSE value.v

\* case 'C': the encoded text cut or space-padded to the field size
EncodeC(field, value, encoding) ==
    LET b == iconvEncode(TextOf(value), encoding)
    IN  [k \in 1..field.size |-> IF k <= Len(b) THEN b[k] ELSE 32]

RECURSIVE SpacePadLeft(_, _)
SpacePadLeft(s, size) == IF Len(s) >= size THEN s ELSE SpacePadLeft(<<32>> \o s, size)

\* case 'N', 'F': value.toString() cut to the field size, then left-padded
EncodeN(field, value, encoding) ==
    LET str == IF IsNullish(value) THEN <<>> ELSE NumberToString(value.v[1])
        cut == SubSeq(str, 1, Min(Len(str), field.size))
    IN  iconvEncode(SpacePadLeft(cut, field.size), encoding)

\* case 'L'
EncodeL(value) ==
    IF IsNullish(value) THEN <<32>> ELSE IF value.v = <<1>> THEN <<84>> ELSE <<70>>

\* case 'D'
EncodeD(value, encoding) ==
    iconvEncode(IF IsNullish(value) THEN Rep(32, 8) ELSE formatDate(value), encoding)

\* the number writeInt32LE / writeDoubleLE receive: '' converts to 0
NumberOf(value) == IF IsNullish(value) THEN 0 ELSE value.v[1]

\* one field written at offset: the buffer and offset after it, or the error
EncodeField(field, record, encoding, buffer, offset) ==
    LET raw == Get(record, field.name)
        value == raw
        done(bytes, adv) ==
            [ok |-> TRUE, buffer |-> BufPut(buffer, offset, bytes),
             offset |-> offset + adv, err |-> ""]
        thrown(msg) == [ok |-> FALSE, buffer |-> buffer, offset |-> offset, err |-> msg]
    IN  CASE field.type = "C" -> done(EncodeC(field, value, encoding), field.size)
          [] field.type \in {"N", "F"} -> done(EncodeN(field, value, encoding), field.size)
          [] field.type = "L" -> done(EncodeL(value), 1)
          [] field.type = "D" -> done(SubSeq(EncodeD(value, encoding), 1, 8), 8)
          [] field.type = "T" ->
                IF IsNullish(value) THEN done(Rep(32, 8), 8)
                ELSE LET t == formatVfpDateTime(value)
                     IN  done(Int32LE(t.julianDay) \o Int32LE(t.msSinceMidnight), 8)
          [] field.type = "B" -> done(DoubleLE(NumberOf(value)), field.size)
          [] field.type = "I" ->
                IF ~IsBig(value) /\ InInt32(NumberOf(value))
                THEN done(Int32LE(NumberOf(value)), field.size)
                ELSE thrown("RangeError")
          [] field.type = "M" -> thrown("Writing to files with memo fields is not supported.")
          [] field.type \notin FieldTypes -> thrown("Type is not supported")

RECURSIVE EncodeFields(_, _, _, _, _, _)
EncodeFields(fields, j, record, encoding, buffer, offset) ==
    IF j > Len(fields) THEN [ok |-> TRUE, buffer |-> buffer, offset |-> offset, err |-> ""]
    ELSE LET encoded(r) ==
                 IF r.ok
                 THEN EncodeFields(fields, j + 1, record, encoding, r.buffer, r.offset)
                 ELSE r
         IN  encoded(EncodeField(fields[j], record, encoding, buffer, offset))

\* the body of the record loop up to its write: validate, flag byte 0x20, fields
EncodeRecord(fields, record, encoding, buffer) ==
    LET encoded(r) == [ok |-> r.ok, buffer |-> r.buffer, err |-> r.err, name |-> <<>>]
        validated(v) ==
            IF ~v.ok THEN [ok |-> FALSE, buffer |-> buffer, err |-> v.msg, name |-> v.name]
            ELSE encoded(EncodeFields(fields, 1, record, encoding,
                                      BufPut(buffer, 0, <<32>>), 1))
    IN  validated(validateRecord(fields, record))

(***************************************************************************)
(* readRecordsFromDBF: decoding the records of one chunk.                  *)
(***************************************************************************)
\* buffer[offset]
BufAt(buf, off) == IF off >= 0 /\ off + 1 <= Len(buf) THEN buf[off + 1] ELSE 0

RECURSIVE TrimRight(_, _, _)
\* while (len > 0 && buffer[offset + len - 1] === 0x20) --len
TrimRight(buf, offset, len) ==
    IF len > 0 /\ BufAt(buf, offset + len - 1) = 32 THEN TrimRight(buf, offset, len - 1)
    ELSE len

RECURSIVE SkipLeft(_, _, _)
\* while (len > 0 && buffer[offset] === 0x20) ++offset, --len
SkipLeft(buf, offset, len) ==
    IF len > 0 /\ BufAt(buf, offset) = 32 THEN SkipLeft(buf, offset + 1, len - 1)
    ELSE <<offset, len>>

\* substrAt(start, len, enc)
substrAt(buf, start, len, enc) == iconvDecode(BufSlice(buf, start, start + len), enc)

\* buffer.indexOf('\x1A'): the 0-based position of the first 0x1A, or -1
IndexOfEos(buf) ==
    IF \E k \in 1..Len(buf) : buf[k] = 26
    THEN (CHOOSE k \in 1..Len(buf) : buf[k] = 26 /\ \A m \in 1..(k - 1) : buf[m] # 26) - 1
    ELSE -1

\* The memo file as a read sees it: whether memoBuf is defined, memoBuf, the
\* block size, the size of the file and its bytes.
NoMemo == [present |-> FALSE, buf |-> <<>>, blockSize |-> 0, fileSize |-> 0, bytes |-> <<>>]

RECURSIVE GetMemo(_, _, _, _, _, _)
\* the while loop of case 'M': the block at blockIndex is read into memoBuf and
\* taken into mergedBuffer by the framing of the version, until the value is
\* complete.  len starts as the size of the field.
GetMemo(version, mc, blockIndex, len, mergedBuffer, encoding) ==
    LET memoBuf == BufAfterRead(mc.buf, mc.bytes, blockIndex * mc.blockSize, mc.blockSize)
        done(bytes) == [ok |-> TRUE, value |-> Str(iconvDecode(bytes, encoding)),
                        mbuf |-> memoBuf, err |-> ""]
        again(len2, merged2) ==
            IF (blockIndex + 1) * mc.blockSize > mc.fileSize
            THEN [ok |-> FALSE, value |-> Null, mbuf |-> memoBuf,
                  err |-> "Error reading memo file (read past end)."]
            ELSE GetMemo(version, [mc EXCEPT !.buf = memoBuf], blockIndex + 1, len2,
                         merged2, encoding)
    IN  CASE version = 131 ->
                LET eos == IndexOfEos(memoBuf)
                    merged == mergedBuffer
                                \o BufSlice(memoBuf, 0, IF eos = -1 THEN mc.blockSize ELSE eos)
                IN  IF eos # -1 THEN done(merged) ELSE again(len, merged)
          [] version = 139 ->
                LET isFirstBlockOfMemo == SubSeq(memoBuf, 1, 4) = <<255, 255, 8, 0>>
                    len1 == IF isFirstBlockOfMemo THEN ReadUInt32LE(memoBuf, 4) - 8 ELSE len
                    skip == IF isFirstBlockOfMemo THEN 8 ELSE 0
                    take == Min(len1, mc.blockSize - skip)
                    merged == mergedBuffer \o BufSlice(memoBuf, skip, skip + take)
                IN  IF len1 - take = 0 THEN done(merged) ELSE again(len1 - take, merged)
          [] version = 48 ->
                LET first == Len(mergedBuffer) = 0
                    len1 == IF first THEN ReadInt32BE(memoBuf, 4) ELSE len
                    skip == IF first THEN 8 ELSE 0
                    take == Min(len1, mc.blockSize - skip)
                    merged == mergedBuffer \o BufSlice(memoBuf, skip, skip + take)
                IN  IF first /\ ReadInt32BE(memoBuf, 0) # 1
                    THEN [ok |-> TRUE, value |-> Str(<<>>), mbuf |-> memoBuf, err |-> ""]
                    ELSE IF len1 - take = 0 THEN done(merged)
                    ELSE again(len1 - take, merged)
          [] OTHER -> [ok |-> FALSE, value |-> Null, mbuf |-> memoBuf,
                       err |-> "Reading memo fields of this version is not supported."]

\* one field decoded at offset: the value, the offset after it, whether the
\* value is stored in the record (a field of unknown type is skipped in loose
\* mode, a memo that cannot be looked up is skipped), and memoBuf afterwards
DecodeField(field, readMode, encoding, buffer, offset, version, mc) ==
    LET got(value, next) ==
            [ok |-> TRUE, store |-> TRUE, value |-> value, offset |-> next, err |-> "",
             mbuf |-> mc.buf]
    IN  CASE field.type = "C" ->
                LET len == TrimRight(buffer, offset, field.size)
                IN  got(Str(substrAt(buffer, offset, len, encoding)), offset + field.size)
          [] field.type \in {"N", "F"} ->
                LET ol == SkipLeft(buffer, offset, field.size)
                IN  got(IF ol[2] > 0 THEN parseFloat(substrAt(buffer, ol[1], ol[2], encoding))
                        ELSE Null,
                        ol[1] + ol[2])
          [] field.type = "L" ->
                LET c == BufAt(buffer, offset)
                IN  got(IF c \in {84, 116, 89, 121} THEN Bool(TRUE)
                        ELSE IF c \in {70, 102, 78, 110} THEN Bool(FALSE) ELSE Null,
                        offset + 1)
          [] field.type = "D" ->
                got(IF BufAt(buffer, offset) = 32 THEN Null
                    ELSE parseDate(substrAt(buffer, offset, 8, encoding)),
                    offset + 8)
          [] field.type = "T" ->
                got(IF BufAt(buffer, offset) = 32 THEN Null
                    ELSE LET b == [i \in 1..8 |-> BufAt(buffer, offset + i - 1)]
                             julianDay == ReadInt32LE(b, 0)
                             msSinceMidnight == ReadInt32LE(b, 4) + 1
                         IN  parseVfpDateTime(julianDay, msSinceMidnight),
                    offset + 8)
          [] field.type = "B" -> got(ReadDoubleLE(buffer, offset), offset + field.size)
          [] field.type = "I" ->
                got(Num(ReadInt32LE([i \in 1..4 |-> BufAt(buffer, offset + i - 1)], 0)),
                    offset + field.size)
          [] field.type = "M" ->
                LET memoOf(m) ==
                        [ok |-> m.ok, store |-> TRUE, value |-> m.value,
                         offset |-> offset + field.size, err |-> m.err, mbuf |-> m.mbuf]
                    at(blockIndex) ==
                        IF blockIndex = NaN \/ blockIndex = Num(0)
                        THEN got(Null, offset + field.size)
                        ELSE IF ~mc.present
                        THEN [ok |-> TRUE, store |-> FALSE, value |-> Null,
                              offset |-> offset + field.size, err |-> "",
                              mbuf |-> mc.buf]
                        ELSE memoOf(GetMemo(version, mc, blockIndex.v[1], field.size,
                                            <<>>, encoding))
                IN  at(IF version = 48
                       THEN Num(ReadInt32LE([i \in 1..4 |-> BufAt(buffer, offset + i - 1)],
                                            0))
                       ELSE parseInt(substrAt(buffer, offset, field.size, encoding)))
          [] field.type \notin FieldTypes ->
                IF readMode = "strict"
                THEN [ok |-> FALSE, store |-> FALSE, value |-> Null, offset |-> offset,
                      err |-> "Type is not supported", mbuf |-> mc.buf]
                ELSE [ok |-> TRUE, store |-> FALSE, value |-> Null,
                      offset |-> offset + field.size, err |-> "", mbuf |-> mc.buf]

RECURSIVE DecodeFields(_, _, _, _, _, _, _, _, _)
DecodeFields(fields, j, readMode, encoding, buffer, offset, record, version, mc) ==
    IF j > Len(fields)
    THEN [ok |-> TRUE, record |-> record, offset |-> offset, err |-> "", mbuf |-> mc.buf]
    ELSE LET decoded(r) ==
                 IF ~r.ok THEN [ok |-> FALSE, record |-> record, offset |-> offset,
                                err |-> r.err, mbuf |-> r.mbuf]
                 ELSE DecodeFields(fields, j + 1, readMode, encoding, buffer, r.offset,
                                   IF r.store THEN (fields[j].name :> r.value) @@ record
                                   ELSE record,
                                   version, [mc EXCEPT !.buf = r.mbuf])
         IN  decoded(DecodeField(fields[j], readMode, getEncoding(encoding, fields[j]),
                                 buffer, offset, version, mc))

\* the empty object {}
EmptyRecord == [n \in {} |-> Null]

\* the flag test with 0x20 taken for the deleted mark: C2 fails of it
isDeletedFlagSpace(byte) == byte = 32

\* let isDeleted = (buffer[offset++] === 0x2a)
isDeletedFlag(byte) == byte = 42

RECURSIVE ParseRecords(_, _, _, _, _, _, _)
\* the for loop over the records of a chunk: record i of the chunk is at buffer
\* offset `offset` and is record number first + i of the file.  The result lists
\* each record with its DELETED flag and, for reference, its number in the file.
ParseRecords(dbf, buffer, recordCountToRead, i, offset, first, mc) ==
    IF i >= recordCountToRead
    THEN [ok |-> TRUE, records |-> <<>>, err |-> "", mbuf |-> mc.buf]
    ELSE LET isDeleted == isDeletedFlag(BufAt(buffer, offset))
         IN  IF isDeleted /\ ~dbf.includeDeletedRecords
             THEN ParseRecords(dbf, buffer, recordCountToRead, i + 1,
                               offset + 1 + (dbf.recordLength - 1), first, mc)
             ELSE LET parsed(r, rest) ==
                          IF ~r.ok THEN [ok |-> FALSE, records |-> <<>>, err |-> r.err,
                                         mbuf |-> r.mbuf]
                          ELSE IF ~rest.ok THEN rest
                          ELSE [ok |-> TRUE, err |-> "", mbuf |-> rest.mbuf,
                                records |-> <<[vals |-> r.record, deleted |-> isDeleted,
                                               idx |-> first + i]>> \o rest.records]
                      decoded(r) ==
                          parsed(r, ParseRecords(dbf, buffer, recordCountToRead, i + 1,
                                                 r.offset, first,
                                                 [mc EXCEPT !.buf = r.mbuf]))
                  IN  decoded(DecodeFields(dbf.fields, 1, dbf.readMode, dbf.encoding,
                                           buffer, offset + 1, EmptyRecord,
                                           dbf.version, mc))

(***************************************************************************)
(* openDBF: parsing the header and the field descriptors.                  *)
(***************************************************************************)
RECURSIVE UpToNul(_, _)
\* text.split('\0')[0]
UpToNul(text, i) ==
    IF i > Len(text) \/ text[i] = 0 THEN SubSeq(text, 1, i - 1) ELSE UpToNul(text, i + 1)

\* the descriptor held by the 32-byte buffer
ParseDescriptor(buffer, encoding) ==
    [name |-> UpToNul(iconvDecode(BufSlice(buffer, 0, 10), encoding), 1),
     type |-> fromCharCode(buffer[12]),
     size |-> ReadUInt8(buffer, 16),
     decimalPlaces |-> ReadUInt8(buffer, 17)]

RECURSIVE ReadDescriptors(_, _, _, _, _, _)
\* while (headerLength > 32 + fields.length * 32) { read; parse; validate; push }
ReadDescriptors(bytes, buffer, fields, headerLength, options, fileVersion) ==
    IF ~(headerLength > 32 + Len(fields) * 32)
    THEN [ok |-> TRUE, fields |-> fields, buffer |-> buffer, err |-> ""]
    ELSE LET buf == BufAfterRead(buffer, bytes, 32 + Len(fields) * 32, 32)
             field == ParseDescriptor(buf, getEncoding(options.encoding, <<>>))
             valid == validateFieldDescriptor(field, fileVersion)
         IN  IF ReadUInt8(buf, 0) = 13
             THEN [ok |-> TRUE, fields |-> fields, buffer |-> buf, err |-> ""]
             ELSE IF options.readMode # "loose" /\ valid # "ok"
             THEN [ok |-> FALSE, fields |-> fields, buffer |-> buf, err |-> valid]
             ELSE IF options.readMode # "loose"
                     /\ \E k \in 1..Len(fields) : fields[k].name = field.name
             THEN [ok |-> FALSE, fields |-> fields, buffer |-> buf,
                   err |-> "Duplicate field name"]
             ELSE ReadDescriptors(bytes, buf, Append(fields, field), headerLength,
                                  options, fileVersion)

\* no version asks for a memo file: C13 fails of it
memoRequiredNever(fileVersion) == FALSE

\* the versions whose memo file a strict open insists on: 0x83 and 0x8b
memoRequired(fileVersion) == fileVersion \in {131, 139}

\* the body of openDBF between opening and closing the file: the DBFFile it
\* returns, or the error it throws.  memoFound: a memo file exists at one of the
\* candidate paths.
openParse(bytes, options, memoFound) ==
    LET buffer == BufAfterRead(BufferAlloc(32), bytes, 0, 32)
        fileVersion == ReadUInt8(buffer, 0)
        recordCount == ReadInt32LE(buffer, 4)
        headerLength == ReadInt16LE(buffer, 8)
        recordLength == ReadInt16LE(buffer, 10)
        memoPath == fileVersion \in {131, 139, 48} /\ memoFound
        d == ReadDescriptors(bytes, buffer, <<>>, headerLength, options, fileVersion)
        term == BufAfterRead(d.buffer, bytes, 32 + Len(d.fields) * 32, 1)
        computedRecordLength == calculateRecordLengthInBytes(d.fields)
        finalRecordLength ==
            IF options.readMode = "loose" THEN computedRecordLength ELSE recordLength
        thrown(msg) == [ok |-> FALSE, err |-> msg]
    IN  IF options.readMode # "loose" /\ ~isValidFileVersion(fileVersion)
        THEN thrown("unknown/unsupported dBase version")
        ELSE IF memoRequired(fileVersion) /\ options.readMode # "loose" /\ ~memoPath
        THEN thrown("Memo file not found")
        ELSE IF ~d.ok THEN thrown(d.err)
        ELSE IF term[1] # 13 THEN thrown("Invalid DBF: Expected header terminator")
        ELSE IF finalRecordLength # computedRecordLength
        THEN thrown("Invalid DBF: Incorrect record length")
        ELSE [ok |-> TRUE, err |-> "",
              dbf |-> [recordCount |-> recordCount,
                       dateOfLastUpdate |-> <<ReadUInt8(buffer, 1) + 1900,
                                              ReadUInt8(buffer, 2), ReadUInt8(buffer, 3)>>,
                       fields |-> d.fields,
                       readMode |-> options.readMode,
                       encoding |-> options.encoding,
                       includeDeletedRecords |-> options.includeDeletedRecords,
                       recordsRead |-> 0,
                       headerLength |-> headerLength,
                       recordLength |-> finalRecordLength,
                       memoPath |-> memoPath,
                       version |-> fileVersion]]

(***************************************************************************)
(* createDBF: the bytes it writes.                                         *)
(***************************************************************************)
\* the 32-byte header written at offset 0
CreateHeader(fileVersion, now, fields) ==
    <<fileVersion, now[1] - 1900, now[2], now[3]>> \o Int32LE(0)
        \o UInt16LE(34 + Len(fields) * 32)
        \o UInt16LE(calculateRecordLengthInBytes(fields)) \o Rep(0, 20)

\* the values the header code stores all fit their byte fields (a write of a
\* value out of range throws a RangeError)
CreateHeaderFits(fileVersion, now, fields) ==
    /\ InUInt8(fileVersion) /\ InUInt8(now[1] - 1900)
    /\ InUInt8(now[2]) /\ InUInt8(now[3])
    /\ InUInt16(34 + Len(fields) * 32)
    /\ InUInt16(calculateRecordLengthInBytes(fields))

\* the 32-byte buffer after the descriptor of `field` was stored in it
CreateDescriptor(buffer, field) ==
    LET named == BufPut(buffer, 0, iconvEncode(field.name, "ISO-8859-1"))
        zeroed == [j \in 1..32 |->
                     IF j - 1 >= Len(field.name) /\ j - 1 < 11 THEN 0 ELSE named[j]]
    IN  BufPut(zeroed, 11,
               <<charCodeAt(field.type)>> \o Rep(0, 4)
                   \o <<field.size, field.decimalPlaces>> \o Rep(0, 2)
                   \o <<1>> \o Rep(0, 2) \o <<0>> \o Rep(0, 4) \o Rep(0, 4))

\* the terminator without its null byte: C10 fails of it
CreateTerminatorNoNull == <<13, 26>>

\* the header terminator, the null byte and the EOF marker
CreateTerminator == <<13, 0, 26>>

(***************************************************************************)
(* Inputs: the file found on disk at the start, and the arguments drawn.   *)
(***************************************************************************)
NameA == <<65>>
NameB == <<66>>
Latin1 == "ISO-8859-1"

FieldsCN == <<Field(NameA, "C", 2), Field(NameB, "N", 3)>>
FieldsLI == <<Field(NameA, "L", 1), Field(NameB, "I", 4)>>
FieldsDB == <<Field(NameA, "D", 8), Field(NameB, "B", 8)>>
FieldsCM == <<Field(NameA, "C", 2), Field(NameB, "M", 10)>>
FieldsBadM == <<Field(NameA, "M", 5)>>

\* the field lists passed to create
CreateFieldLists == {FieldsCN, FieldsLI, FieldsDB, FieldsCM, FieldsBadM}

\* the file versions passed to create (0x03, 0x8b)
CreateVersions == {3, 139}

\* the clock read by create
Today == <<2026, 11, 2>>

\* A dBase III file as another program left it: version 0x03, last update
\* 2014-04-14, three records, fields A (C, 2) and B (N, 3), header length 98,
\* record length 6.  flags[i] is the deleted flag of record i-1.
ExistingFile(flags) ==
    <<3, 114, 4, 14, 3, 0, 0, 0, 98, 0, 6, 0>> \o Rep(0, 20)
      \o <<65>> \o Rep(0, 10) \o <<67, 0, 0, 0, 0, 2, 0, 0, 0, 1>> \o Rep(0, 11)
      \o <<66>> \o Rep(0, 10) \o <<78, 0, 0, 0, 0, 3, 0, 0, 0, 1>> \o Rep(0, 11)
      \o <<13, 0>>
      \o <<flags[1], 97, 32, 32, 32, 55>>
      \o <<flags[2], 98, 99, 45, 49, 50>>
      \o <<flags[3], 32, 32, 32, 32, 32>>
      \o <<26>>

\* what its three records hold
ExistingRecords ==
    << (NameA :> Str(<<97>>)) @@ (NameB :> Num(7)),
       (NameA :> Str(<<98, 99>>)) @@ (NameB :> Num(-12)),
       (NameA :> Str(<<>>)) @@ (NameB :> Null) >>

ExistingFiles ==
    {ExistingFile(f) : f \in {<<32, 32, 32>>, <<32, 42, 32>>, <<42, 32, 32>>, <<42, 42, 42>>}}

\* the record lists passed to appendRecords, by the handle's field list
AppendInputs(fields) ==
    CASE fields = FieldsCN ->
            LET r1 == (NameA :> Str(<<120>>)) @@ (NameB :> Num(45))
                r2 == (NameA :> Str(<<121, 122>>)) @@ (NameB :> Num(-6))
                rnull == (NameA :> Null)
                rbad == (NameA :> Num(5)) @@ (NameB :> Num(7))
                rlong == (NameA :> Str(<<120, 121, 122>>)) @@ (NameB :> Num(1234))
            IN  {<<>>, <<r1>>, <<r1, r2>>, <<r2, rbad>>, <<rnull, rlong>>}
      [] fields = FieldsLI ->
            LET r1 == (NameA :> Bool(TRUE)) @@ (NameB :> Num(-2))
                r2 == (NameA :> Bool(FALSE)) @@ (NameB :> Num(70000))
                rbad == (NameA :> Num(0)) @@ (NameB :> Num(1))
            IN  {<<r1, r2>>, <<r1, rbad>>}
      [] fields = FieldsDB ->
            LET r1 == (NameA :> Date(1999, 3, 25)) @@ (NameB :> Num(5))
                r2 == (NameA :> Date(2013, 12, 12)) @@ (NameB :> Num(-3))
            IN  {<<r1, r2>>}
      [] OTHER -> {<<>>}

OpenOptionsSet ==
    {[readMode |-> "strict", encoding |-> Latin1, includeDeletedRecords |-> FALSE],
     [readMode |-> "strict", encoding |-> Latin1, includeDeletedRecords |-> TRUE],
     [readMode |-> "loose", encoding |-> Latin1, includeDeletedRecords |-> FALSE]}

ReadCounts == 0..MaxReadCount \cup {defaultMaxCount}

(***************************************************************************)
(* State.                                                                  *)
(***************************************************************************)
VARIABLES
    disk,       \* the .dbf file: [exists, bytes]
    memo,       \* the memo file beside it: [exists, bytes]
    openFds,    \* the number of OS file handles currently open
    dbf,        \* the DBFFile the caller holds: [live, ...fields of the class]
    pc,         \* where the call in progress is suspended; "idle" when none is
    frame,      \* the local variables of the call in progress (fd and memoFd
                \* are 1 while the call holds the handle, 0 otherwise)
    iter,       \* the async iteration in progress: [active, start, yielded]
    result,     \* how the last completed call ended
    delivered,  \* the records readRecords returned on this handle, in order
    pre,        \* the handle and the file as they were when the last call
                \* began, and the arguments of that call
    written,    \* the records appended by successful calls to a file that create
                \* wrote: [known, records, partial]; known is FALSE for any other
                \* file, partial is TRUE once an append has failed after it wrote
    calls,      \* the calls begun: [handles] of open and create, [ops] on a handle
    faults,     \* the number of I/O errors injected
    other       \* a second DBFFile on the same path and the call in progress on
                \* it: [dbf, pc, frame, iter, result, delivered, pre]

vars == <<disk, memo, openFds, dbf, pc, frame, iter, result, delivered, pre,
          written, calls, faults, other>>

NoFile == [exists |-> FALSE, bytes |-> <<>>]

NoDbf ==
    [live |-> FALSE, recordCount |-> 0, dateOfLastUpdate |-> <<0, 0, 0>>,
     fields |-> <<>>, readMode |-> "strict", encoding |-> Latin1,
     includeDeletedRecords |-> FALSE, recordsRead |-> 0, headerLength |-> 0,
     recordLength |-> 0, memoPath |-> FALSE, version |-> 0]

\* new DBFFile() with the given properties assigned
NewDbf(props) == [k \in DOMAIN NoDbf |->
                    IF k = "live" THEN TRUE
                    ELSE IF k \in DOMAIN props THEN props[k] ELSE NoDbf[k]]

NoFrame ==
    [op |-> "none", fd |-> 0, buffer |-> <<>>, currentPosition |-> 0,
     records |-> <<>>, maxCount |-> 0, input |-> <<>>, i |-> 0,
     fields |-> <<>>, fileVersion |-> 0,
     options |-> [readMode |-> "strict", encoding |-> Latin1,
                  includeDeletedRecords |-> FALSE],
     ok |-> TRUE, err |-> "", name |-> <<>>, ret |-> NoDbf,
     memoFd |-> 0, mc |-> NoMemo]

NoResult == [op |-> "none", ok |-> TRUE, err |-> "", name |-> <<>>, records |-> <<>>]

NoIter == [active |-> FALSE, start |-> 0, yielded |-> <<>>]

Snapshot == [dbf |-> dbf, disk |-> disk, delivered |-> delivered,
             maxCount |-> 0, input |-> <<>>, fields |-> <<>>, fileVersion |-> 0]

\* what belongs to one DBFFile and the call in progress on it
Handle == [dbf |-> dbf, pc |-> pc, frame |-> frame, iter |-> iter, result |-> result,
           delivered |-> delivered, pre |-> pre]

Init ==
    /\ disk \in {NoFile} \cup {[exists |-> TRUE, bytes |-> b] : b \in ExistingFiles}
    /\ memo = NoFile
    /\ openFds = 0
    /\ dbf = NoDbf
    /\ pc = "idle"
    /\ frame = NoFrame
    /\ iter = NoIter
    /\ result = NoResult
    /\ delivered = <<>>
    /\ pre = Snapshot
    /\ written = [known |-> FALSE, records |-> <<>>, partial |-> FALSE]
    /\ calls = [handles |-> 0, ops |-> 0]
    /\ faults = 0
    /\ other = Handle

\* a new call on the handle may begin
CanCall == pc = "idle" /\ ~iter.active /\ calls.ops < MaxCalls

\* a new call of open or create may begin
CanObtain == pc = "idle" /\ ~iter.active /\ calls.handles < MaxHandles

\* an I/O error may be injected
CanFault == faults < MaxFaults

\* `await close(fd)` in a finally block fails: the descriptor is released all
\* the same (close(2)), the error replaces the outcome of the try block
CloseFault == CanFault /\ faults' = faults + 1

\* the call in progress ends: the promise settles
Settle(op, ok, err, name, records) ==
    /\ pc' = "idle"
    /\ frame' = NoFrame
    /\ result' = [op |-> op, ok |-> ok, err |-> err, name |-> name,
                  records |-> records]

(***************************************************************************)
(* openDBF.                                                                *)
(***************************************************************************)
\* The call begins and `await open(path, 'r')` settles.
openDBF_open(options) ==
    /\ CanObtain
    /\ calls' = [calls EXCEPT !.handles = @ + 1]
    /\ pre' = Snapshot
    /\ \/ /\ ~disk.exists
          /\ Settle("open", FALSE, "ENOENT", <<>>, <<>>)
          /\ UNCHANGED <<openFds, faults>>
       \/ /\ disk.exists /\ CanFault
          /\ faults' = faults + 1
          /\ Settle("open", FALSE, "EIO", <<>>, <<>>)
          /\ UNCHANGED openFds
       \/ /\ disk.exists
          /\ openFds' = openFds + 1
          /\ pc' = "open_parse"
          /\ frame' = [NoFrame EXCEPT !.op = "open", !.fd = 1, !.options = options]
          /\ UNCHANGED <<result, faults>>
    /\ UNCHANGED <<disk, memo, dbf, iter, delivered, written>>
    /\ UNCHANGED other

\* The reads of the header, the descriptors and the terminator, and the stat
\* of the memo paths, settle; the DBFFile is built or an error is thrown.
openDBF_parse ==
    /\ pc = "open_parse"
    /\ \/ /\ CanFault
          /\ faults' = faults + 1
          /\ frame' = [frame EXCEPT !.ok = FALSE, !.err = "EIO"]
       \/ LET r == openParse(disk.bytes, frame.options, memo.exists)
          IN  /\ frame' = [frame EXCEPT !.ok = r.ok, !.err = r.err,
                                        !.ret = IF r.ok THEN NewDbf(r.dbf) ELSE NoDbf]
              /\ UNCHANGED faults
    /\ pc' = "open_close"
    /\ UNCHANGED <<disk, memo, openFds, dbf, iter, result, delivered, pre, calls, written>>
    /\ UNCHANGED other

\* finally { if (fd) await close(fd) }, then the promise settles.
openDBF_close ==
    /\ pc = "open_close"
    /\ openFds' = openFds - 1
    /\ \/ /\ CloseFault
          /\ Settle("open", FALSE, "EIO", <<>>, <<>>)
          /\ UNCHANGED <<dbf, delivered>>
       \/ /\ dbf' = IF frame.ok THEN frame.ret ELSE dbf
          /\ delivered' = IF frame.ok THEN <<>> ELSE delivered
          /\ Settle("open", frame.ok, frame.err, <<>>, <<>>)
          /\ UNCHANGED faults
    /\ UNCHANGED <<disk, memo, iter, pre, calls, written>>
    /\ UNCHANGED other

(***************************************************************************)
(* createDBF.                                                              *)
(***************************************************************************)
\* the frame once descriptor i (0-based) or, past the last, the terminator is
\* in the buffer and its write is awaited
CreateNext(f, i) ==
    IF i < Len(f.fields)
    THEN [f EXCEPT !.i = i, !.buffer = CreateDescriptor(f.buffer, f.fields[i + 1])]
    ELSE [f EXCEPT !.i = i, !.buffer = BufPut(f.buffer, 0, CreateTerminator)]

\* the memo test looking at the first field only: C9 fails of it
hasMemoFieldFirst(fields) == Len(fields) > 0 /\ fields[1].type = "M"

\* fields.some(f => f.type === 'M')
hasMemoField(fields) == \E k \in 1..Len(fields) : fields[k].type = "M"

\* The call begins: the field list is validated, memo fields are refused,
\* `await open(path, 'wx')` settles and the header is put in the buffer.
createDBF_open(fields, fileVersion) ==
    /\ CanObtain
    /\ calls' = [calls EXCEPT !.handles = @ + 1]
    /\ pre' = [Snapshot EXCEPT !.fields = fields, !.fileVersion = fileVersion]
    /\ \/ /\ validateFieldDescriptors(fields, fileVersion) # "ok"
          /\ Settle("create", FALSE, validateFieldDescriptors(fields, fileVersion),
                    <<>>, <<>>)
          /\ UNCHANGED <<disk, openFds, faults>>
       \/ /\ validateFieldDescriptors(fields, fileVersion) = "ok"
          /\ hasMemoField(fields)
          /\ Settle("create", FALSE,
                    "Writing to files with memo fields is not supported.", <<>>, <<>>)
          /\ UNCHANGED <<disk, openFds, faults>>
       \/ /\ validateFieldDescriptors(fields, fileVersion) = "ok"
          /\ ~hasMemoField(fields)
          /\ \/ /\ disk.exists
                /\ Settle("create", FALSE, "EEXIST", <<>>, <<>>)
                /\ UNCHANGED <<disk, openFds, faults>>
             \/ /\ ~disk.exists /\ CanFault
                /\ faults' = faults + 1
                /\ Settle("create", FALSE, "EIO", <<>>, <<>>)
                /\ UNCHANGED <<disk, openFds>>
             \/ /\ ~disk.exists
                /\ disk' = [exists |-> TRUE, bytes |-> <<>>]
                /\ openFds' = openFds + 1
                /\ IF CreateHeaderFits(fileVersion, Today, fields)
                   THEN /\ pc' = "create_header"
                        /\ frame' = [NoFrame EXCEPT
                               !.op = "create", !.fd = 1, !.fields = fields,
                               !.fileVersion = fileVersion,
                               !.buffer = CreateHeader(fileVersion, Today, fields)]
                   ELSE /\ pc' = "create_close"
                        /\ frame' = [NoFrame EXCEPT
                               !.op = "create", !.fd = 1, !.fields = fields,
                               !.ok = FALSE, !.err = "RangeError"]
                /\ UNCHANGED <<result, faults>>
    /\ UNCHANGED <<memo, dbf, iter, delivered, written>>
    /\ UNCHANGED other

\* a write of createDBF fails
CreateFault ==
    /\ CanFault
    /\ faults' = faults + 1
    /\ frame' = [frame EXCEPT !.ok = FALSE, !.err = "EIO"]
    /\ pc' = "create_close"
    /\ UNCHANGED disk

\* `await write(fd, buffer, 0, 32, 0)` settles.
createDBF_header ==
    /\ pc = "create_header"
    /\ \/ CreateFault
       \/ /\ disk' = [disk EXCEPT !.bytes = FsWrite(@, 0, SubSeq(frame.buffer, 1, 32))]
          /\ frame' = CreateNext(frame, 0)
          /\ pc' = IF Len(frame.fields) > 0 THEN "create_field" ELSE "create_term"
          /\ UNCHANGED faults
    /\ UNCHANGED <<memo, openFds, dbf, iter, result, delivered, pre, calls, written>>
    /\ UNCHANGED other

\* `await write(fd, buffer, 0, 32, 32 + i * 32)` settles.
createDBF_field ==
    /\ pc = "create_field"
    /\ \/ CreateFault
       \/ /\ disk' = [disk EXCEPT !.bytes =
                        FsWrite(@, 32 + frame.i * 32, SubSeq(frame.buffer, 1, 32))]
          /\ frame' = CreateNext(frame, frame.i + 1)
          /\ pc' = IF frame.i + 1 < Len(frame.fields) THEN "create_field"
                   ELSE "create_term"
          /\ UNCHANGED faults
    /\ UNCHANGED <<memo, openFds, dbf, iter, result, delivered, pre, calls, written>>
    /\ UNCHANGED other

\* `await write(fd, buffer, 0, 3, 32 + fields.length * 32)` settles and the
\* DBFFile is built.
createDBF_term ==
    /\ pc = "create_term"
    /\ \/ CreateFault
       \/ /\ disk' = [disk EXCEPT !.bytes =
                        FsWrite(@, 32 + Len(frame.fields) * 32,
                                SubSeq(frame.buffer, 1, 3))]
          /\ frame' = [frame EXCEPT !.ret =
                 NewDbf([recordCount |-> 0,
                         dateOfLastUpdate |-> Today,
                         fields |-> frame.fields,
                         readMode |-> "strict",
                         encoding |-> Latin1,
                         recordsRead |-> 0,
                         headerLength |-> 34 + Len(frame.fields) * 32,
                         recordLength |-> calculateRecordLengthInBytes(frame.fields)])]
          /\ pc' = "create_close"
          /\ UNCHANGED faults
    /\ UNCHANGED <<memo, openFds, dbf, iter, result, delivered, pre, calls, written>>
    /\ UNCHANGED other

\* finally { if (fd) await close(fd) }, then the promise settles.
createDBF_close ==
    /\ pc = "create_close"
    /\ openFds' = openFds - 1
    /\ \/ /\ CloseFault
          /\ Settle("create", FALSE, "EIO", <<>>, <<>>)
          /\ UNCHANGED <<dbf, delivered, written>>
       \/ /\ dbf' = IF frame.ok THEN frame.ret ELSE dbf
          /\ delivered' = IF frame.ok THEN <<>> ELSE delivered
          /\ written' = IF frame.ok
                        THEN [known |-> TRUE, records |-> <<>>, partial |-> FALSE]
                        ELSE written
          /\ Settle("create", frame.ok, frame.err, <<>>, <<>>)
          /\ UNCHANGED faults
    /\ UNCHANGED <<disk, memo, iter, pre, calls>>
    /\ UNCHANGED other

(***************************************************************************)
(* readRecordsFromDBF.                                                     *)
(***************************************************************************)
\* the chunk size without the limit of the request: C3 fails of it
recordCountToReadUnlimited(h, maxCount, collected) ==
    LET n == h.recordCount - h.recordsRead
    IN  IF n > recordCountPerBuffer THEN recordCountPerBuffer ELSE n

\* the chunk size with one record more than the file has left: C21 fails of it
recordCountToReadPastCount(h, maxCount, collected) ==
    LET maxRecords1 == h.recordCount - h.recordsRead + 1
        maxRecords2 == maxCount - collected
        n == IF maxRecords1 < maxRecords2 THEN maxRecords1 ELSE maxRecords2
    IN  IF n > recordCountPerBuffer THEN recordCountPerBuffer ELSE n

\* "Work out how many records to read in this chunk", for a handle h and the
\* number of records collected so far
recordCountToRead(h, maxCount, collected) ==
    LET maxRecords1 == h.recordCount - h.recordsRead
        maxRecords2 == maxCount - collected
        n == IF maxRecords1 < maxRecords2 THEN maxRecords1 ELSE maxRecords2
    IN  IF n > recordCountPerBuffer THEN recordCountPerBuffer ELSE n

\* the top of the while loop, for frame f and handle h: either the read of the
\* next chunk is awaited, or the loop is left
ReadLoop(f, h) ==
    LET n == recordCountToRead(h, f.maxCount, Len(f.records))
    IN  IF n = 0 THEN [pc |-> "read_close", frame |-> f]
        ELSE IF n < 0
        THEN [pc |-> "read_close", frame |-> [f EXCEPT !.ok = FALSE, !.err = "RangeError"]]
        ELSE [pc |-> "read_chunk", frame |-> [f EXCEPT !.i = n]]

\* readRecordsFromDBF(dbf, maxCount) begins and `await open(path, 'r')` settles.
\* The buffer holds recordCountPerBuffer records; the model keeps the part of
\* it that the records of the file can reach.
BeginRead(maxCount, op) ==
    /\ dbf.live
    /\ \/ /\ ~disk.exists
          /\ Settle(op, FALSE, "ENOENT", <<>>, <<>>)
          /\ UNCHANGED <<openFds, faults>>
       \/ /\ disk.exists /\ CanFault
          /\ faults' = faults + 1
          /\ Settle(op, FALSE, "EIO", <<>>, <<>>)
          /\ UNCHANGED openFds
       \/ /\ disk.exists
          /\ openFds' = openFds + 1
          /\ LET f == [NoFrame EXCEPT
                         !.op = "read", !.fd = 1, !.maxCount = maxCount,
                         !.buffer = BufferAlloc(dbf.recordLength
                                        * Min(recordCountPerBuffer, dbf.recordCount)),
                         !.currentPosition =
                             dbf.headerLength + dbf.recordLength * dbf.recordsRead]
                 next == ReadLoop(f, dbf)
             IN  IF dbf.memoPath THEN pc' = "read_memo_open" /\ frame' = f
                 ELSE pc' = next.pc /\ frame' = next.frame
          /\ UNCHANGED <<result, faults>>
    /\ UNCHANGED <<disk, memo, dbf, delivered>>

\* a step of readRecordsFromDBF before its loop fails
ReadFault ==
    /\ CanFault
    /\ faults' = faults + 1
    /\ frame' = [frame EXCEPT !.ok = FALSE, !.err = "EIO"]
    /\ pc' = "read_close"

\* `memoFd = await open(dbf._memoPath, 'r')` settles.
readRecords_memoOpen ==
    /\ pc = "read_memo_open"
    /\ \/ ReadFault /\ UNCHANGED openFds
       \/ /\ ~memo.exists
          /\ frame' = [frame EXCEPT !.ok = FALSE, !.err = "ENOENT"]
          /\ pc' = "read_close"
          /\ UNCHANGED <<openFds, faults>>
       \/ /\ memo.exists
          /\ openFds' = openFds + 1
          /\ frame' = [frame EXCEPT !.memoFd = 1]
          /\ pc' = "read_memo_size"
          /\ UNCHANGED faults
    /\ UNCHANGED <<disk, memo, dbf, iter, result, delivered, pre, calls, written>>
    /\ UNCHANGED other

\* the block size a memo file of the given version declares: the two bytes at
\* offset 6 (big-endian) for 0x30, the four at offset 4 for 0x8b, 512 for any
\* other version and whenever the bytes say 0
memoBlockSizeOf(version, buffer) ==
    LET declared == IF version = 48 THEN ReadUInt16BE(buffer, 0)
                    ELSE IF version = 139 THEN ReadInt32LE(buffer, 0)
                    ELSE 0
    IN  IF declared = 0 THEN 512 ELSE declared

\* `await read(memoFd, buffer, 0, 2, 6)` or `await read(memoFd, buffer, 0, 4, 4)`
\* settles: the block size is worked out and memoBuf allocated.
readRecords_memoSize ==
    /\ pc = "read_memo_size"
    /\ \/ ReadFault
       \/ LET buffer == IF dbf.version = 48
                        THEN BufAfterRead(frame.buffer, memo.bytes, 6, 2)
                        ELSE BufAfterRead(frame.buffer, memo.bytes, 4, 4)
              memoBlockSize == memoBlockSizeOf(dbf.version, buffer)
          IN  /\ frame' = [frame EXCEPT
                             !.buffer = buffer,
                             !.mc = [present |-> TRUE, buf |-> BufferAlloc(memoBlockSize),
                                     blockSize |-> memoBlockSize, fileSize |-> 0,
                                     bytes |-> <<>>]]
              /\ pc' = "read_memo_stat"
              /\ UNCHANGED faults
    /\ UNCHANGED <<disk, memo, openFds, dbf, iter, result, delivered, pre, calls, written>>
    /\ UNCHANGED other

\* `memoFileSize = (await stat(dbf._memoPath)).size` settles and the loop begins.
readRecords_memoStat ==
    /\ pc = "read_memo_stat"
    /\ \/ ReadFault
       \/ LET f == [frame EXCEPT !.mc.fileSize = Len(memo.bytes)]
              next == ReadLoop(f, dbf)
          IN  /\ pc' = next.pc
              /\ frame' = next.frame
              /\ UNCHANGED faults
    /\ UNCHANGED <<disk, memo, openFds, dbf, iter, result, delivered, pre, calls, written>>
    /\ UNCHANGED other

\* dbf.readRecords(maxCount)
readRecords(maxCount) ==
    /\ CanCall
    /\ calls' = [calls EXCEPT !.ops = @ + 1]
    /\ pre' = [Snapshot EXCEPT !.maxCount = maxCount]
    /\ BeginRead(maxCount, "read")
    /\ UNCHANGED <<iter, written>>
    /\ UNCHANGED other

\* `await read(fd, buffer, 0, recordLength * recordCountToRead, currentPosition)`
\* settles; the cursor moves on, the chunk is parsed (the blocks of its memos
\* are read from the memo file on the way), the loop goes round.
readRecords_chunk ==
    /\ pc = "read_chunk"
    /\ \/ /\ CanFault
          /\ faults' = faults + 1
          /\ frame' = [frame EXCEPT !.ok = FALSE, !.err = "EIO"]
          /\ pc' = "read_close"
          /\ UNCHANGED dbf
       \/ LET n == frame.i
              buffer == BufAfterRead(frame.buffer, disk.bytes, frame.currentPosition,
                                     dbf.recordLength * n)
              moved == [dbf EXCEPT !.recordsRead = @ + n]
              framed(parsed) ==
                  [frame EXCEPT
                      !.buffer = buffer,
                      !.mc.buf = parsed.mbuf,
                      !.currentPosition = @ + dbf.recordLength * n,
                      !.records = IF parsed.ok THEN @ \o parsed.records ELSE @,
                      !.ok = parsed.ok, !.err = parsed.err]
              goOn(parsed, f, next) ==
                  /\ dbf' = moved
                  /\ pc' = IF parsed.ok THEN next.pc ELSE "read_close"
                  /\ frame' = IF parsed.ok THEN next.frame ELSE f
                  /\ UNCHANGED faults
              looped(parsed, f) == goOn(parsed, f, ReadLoop(f, moved))
              chunk(parsed) == looped(parsed, framed(parsed))
          IN  chunk(ParseRecords(dbf, buffer, n, 0, 0, dbf.recordsRead,
                                 [frame.mc EXCEPT !.bytes = memo.bytes]))
    /\ UNCHANGED <<disk, memo, openFds, iter, result, delivered, pre, calls, written>>
    /\ UNCHANGED other

\* The promise of readRecords settles.  A call made by the async iterator
\* hands its records to the iteration.
ReadSettle(f) ==
    /\ delivered' = IF f.ok THEN delivered \o f.records ELSE delivered
    /\ pc' = "idle"
    /\ frame' = NoFrame
    /\ IF iter.active
       THEN /\ iter' = IF f.ok THEN [iter EXCEPT !.yielded = @ \o f.records]
                       ELSE [iter EXCEPT !.active = FALSE]
            /\ result' = IF f.ok THEN result
                         ELSE [op |-> "iterate", ok |-> FALSE, err |-> f.err,
                               name |-> <<>>, records |-> iter.yielded]
       ELSE /\ iter' = iter
            /\ result' = [op |-> "read", ok |-> f.ok, err |-> f.err,
                          name |-> <<>>,
                          records |-> IF f.ok THEN f.records ELSE <<>>]

\* the outcome of a call whose close failed
CloseFailed(f) == [f EXCEPT !.ok = FALSE, !.err = "EIO"]

\* finally { if (fd) await close(fd); ... }: when this close fails the finally
\* block is left at once and the memo file, if open, is not closed.
readRecords_close ==
    /\ pc = "read_close"
    /\ openFds' = openFds - 1
    /\ \/ /\ CloseFault
          /\ ReadSettle(CloseFailed(frame))
       \/ /\ UNCHANGED faults
          /\ IF frame.memoFd = 1
             THEN /\ pc' = "read_memo_close"
                  /\ frame' = [frame EXCEPT !.fd = 0]
                  /\ UNCHANGED <<iter, result, delivered>>
             ELSE ReadSettle(frame)
    /\ UNCHANGED <<disk, memo, dbf, pre, calls, written>>
    /\ UNCHANGED other

\* finally { ...; if (memoFd) await close(memoFd) }, then the promise settles.
readRecords_memoClose ==
    /\ pc = "read_memo_close"
    /\ openFds' = openFds - 1
    /\ \/ CloseFault /\ ReadSettle(CloseFailed(frame))
       \/ UNCHANGED faults /\ ReadSettle(frame)
    /\ UNCHANGED <<disk, memo, dbf, pre, calls, written>>
    /\ UNCHANGED other

(***************************************************************************)
(* DBFFile[Symbol.asyncIterator].                                          *)
(***************************************************************************)
\* for await (const record of dbf): the iteration begins
iterate_start ==
    /\ CanCall
    /\ dbf.live
    /\ calls' = [calls EXCEPT !.ops = @ + 1]
    /\ pre' = Snapshot
    /\ iter' = [active |-> TRUE, start |-> dbf.recordsRead, yielded |-> <<>>]
    /\ UNCHANGED <<disk, memo, openFds, dbf, pc, frame, result, delivered, faults, written>>
    /\ UNCHANGED other

\* the loop stopping one record short of recordCount: C8 fails of it
iterate_next_short ==
    /\ pc = "idle" /\ iter.active
    /\ \/ /\ dbf.recordsRead < dbf.recordCount - 1
          /\ BeginRead(iterChunk, "iterate")
          /\ iter' = IF pc' = "idle" THEN [iter EXCEPT !.active = FALSE] ELSE iter
       \/ /\ dbf.recordsRead >= dbf.recordCount - 1
          /\ iter' = [iter EXCEPT !.active = FALSE]
          /\ result' = [op |-> "iterate", ok |-> TRUE, err |-> "", name |-> <<>>,
                        records |-> iter.yielded]
          /\ UNCHANGED <<disk, memo, openFds, dbf, pc, frame, delivered, faults>>
    /\ UNCHANGED <<pre, calls, written>>
    /\ UNCHANGED other

\* while (this._recordsRead !== this.recordCount) yield* await this.readRecords(100)
iterate_next ==
    /\ pc = "idle" /\ iter.active
    /\ \/ /\ dbf.recordsRead # dbf.recordCount
          /\ BeginRead(iterChunk, "iterate")
          /\ iter' = IF pc' = "idle" THEN [iter EXCEPT !.active = FALSE] ELSE iter
       \/ /\ dbf.recordsRead = dbf.recordCount
          /\ iter' = [iter EXCEPT !.active = FALSE]
          /\ result' = [op |-> "iterate", ok |-> TRUE, err |-> "", name |-> <<>>,
                        records |-> iter.yielded]
          /\ UNCHANGED <<disk, memo, openFds, dbf, pc, frame, delivered, faults>>
    /\ UNCHANGED <<pre, calls, written>>
    /\ UNCHANGED other

(***************************************************************************)
(* appendRecordsToDBF.                                                     *)
(***************************************************************************)
\* the loop ending without the marker byte in the buffer: C22 fails of it
AppendLoopNoMarker(f) ==
    IF f.i < Len(f.input)
    THEN LET encoded(r) ==
                 IF r.ok THEN [pc |-> "append_record", frame |-> [f EXCEPT !.buffer = r.buffer]]
                 ELSE [pc |-> "append_close",
                       frame |-> [f EXCEPT !.ok = FALSE, !.err = r.err, !.name = r.name]]
         IN  encoded(EncodeRecord(dbf.fields, f.input[f.i + 1], dbf.encoding, f.buffer))
    ELSE [pc |-> "append_eof", frame |-> f]

\* the loop left one record early: C20 fails of it
AppendLoopOneShort(f) ==
    IF f.i + 1 < Len(f.input)
    THEN LET encoded(r) ==
                 IF r.ok THEN [pc |-> "append_record", frame |-> [f EXCEPT !.buffer = r.buffer]]
                 ELSE [pc |-> "append_close",
                       frame |-> [f EXCEPT !.ok = FALSE, !.err = r.err, !.name = r.name]]
         IN  encoded(EncodeRecord(dbf.fields, f.input[f.i + 1], dbf.encoding, f.buffer))
    ELSE [pc |-> "append_eof", frame |-> [f EXCEPT !.buffer = BufPut(@, 0, <<26>>)]]

\* the top of the for loop, for frame f: record f.i is validated and encoded
\* and its write is awaited, or validation or encoding throws, or the loop is
\* over and the write of the EOF marker is awaited
AppendLoop(f) ==
    IF f.i < Len(f.input)
    THEN LET encoded(r) ==
                 IF r.ok THEN [pc |-> "append_record", frame |-> [f EXCEPT !.buffer = r.buffer]]
                 ELSE [pc |-> "append_close",
                       frame |-> [f EXCEPT !.ok = FALSE, !.err = r.err, !.name = r.name]]
         IN  encoded(EncodeRecord(dbf.fields, f.input[f.i + 1], dbf.encoding, f.buffer))
    ELSE [pc |-> "append_eof", frame |-> [f EXCEPT !.buffer = BufPut(@, 0, <<26>>)]]

\* the append position without the header length: C4 fails of it
appendPositionNoHeader(h, recordLength) == h.recordCount * recordLength

\* "Calculate the file position at which to start appending."
appendPosition(h, recordLength) == h.headerLength + h.recordCount * recordLength

\* dbf.appendRecords(records) begins and `await open(path, 'r+')` settles.
appendRecords(records) ==
    /\ CanCall
    /\ dbf.live
    /\ calls' = [calls EXCEPT !.ops = @ + 1]
    /\ pre' = [Snapshot EXCEPT !.input = records]
    /\ \/ /\ ~disk.exists
          /\ Settle("append", FALSE, "ENOENT", <<>>, <<>>)
          /\ UNCHANGED <<openFds, faults>>
       \/ /\ disk.exists /\ CanFault
          /\ faults' = faults + 1
          /\ Settle("append", FALSE, "EIO", <<>>, <<>>)
          /\ UNCHANGED openFds
       \/ /\ disk.exists
          /\ openFds' = openFds + 1
          /\ LET recordLength == calculateRecordLengthInBytes(dbf.fields)
                 f == [NoFrame EXCEPT
                         !.op = "append", !.fd = 1, !.input = records, !.i = 0,
                         !.buffer = BufferAlloc(recordLength + 4),
                         !.currentPosition = appendPosition(dbf, recordLength)]
                 goOn(next) == pc' = next.pc /\ frame' = next.frame
             IN  goOn(AppendLoop(f))
          /\ UNCHANGED <<result, faults>>
    /\ UNCHANGED <<disk, memo, dbf, iter, delivered, written>>
    /\ UNCHANGED other

\* a write of appendRecordsToDBF fails
AppendFault ==
    /\ CanFault
    /\ faults' = faults + 1
    /\ frame' = [frame EXCEPT !.ok = FALSE, !.err = "EIO"]
    /\ pc' = "append_close"
    /\ UNCHANGED disk

\* `await write(fd, buffer, 0, recordLength, currentPosition)` settles.
appendRecords_record ==
    /\ pc = "append_record"
    /\ \/ AppendFault
       \/ LET recordLength == calculateRecordLengthInBytes(dbf.fields)
              goOn(next) ==
                  /\ disk' = [disk EXCEPT !.bytes =
                                FsWrite(@, frame.currentPosition,
                                        SubSeq(frame.buffer, 1, recordLength))]
                  /\ pc' = next.pc
                  /\ frame' = next.frame
                  /\ UNCHANGED faults
          IN  goOn(AppendLoop([frame EXCEPT !.i = @ + 1,
                                           !.currentPosition = @ + recordLength]))
    /\ UNCHANGED <<memo, openFds, dbf, iter, result, delivered, pre, calls, written>>
    /\ UNCHANGED other

\* `await write(fd, buffer, 0, 1, currentPosition)` of the EOF marker settles;
\* the record count of the instance is updated and the write of the count into
\* the header is awaited.
appendRecords_eof ==
    /\ pc = "append_eof"
    /\ \/ AppendFault /\ UNCHANGED dbf
       \/ /\ disk' = [disk EXCEPT !.bytes =
                        FsWrite(@, frame.currentPosition, SubSeq(frame.buffer, 1, 1))]
          /\ dbf' = [dbf EXCEPT !.recordCount = @ + Len(frame.input)]
          /\ frame' = [frame EXCEPT !.buffer =
                         BufPut(@, 0, Int32LE(dbf.recordCount + Len(frame.input)))]
          /\ pc' = "append_count"
          /\ UNCHANGED faults
    /\ UNCHANGED <<memo, openFds, iter, result, delivered, pre, calls, written>>
    /\ UNCHANGED other

\* `await write(fd, buffer, 0, 4, 0x04)` settles.
appendRecords_count ==
    /\ pc = "append_count"
    /\ \/ AppendFault
       \/ /\ disk' = [disk EXCEPT !.bytes = FsWrite(@, 4, SubSeq(frame.buffer, 1, 4))]
          /\ frame' = frame
          /\ pc' = "append_close"
          /\ UNCHANGED faults
    /\ UNCHANGED <<memo, openFds, dbf, iter, result, delivered, pre, calls, written>>
    /\ UNCHANGED other

\* finally { if (fd) await close(fd) }, then the promise settles.
appendRecords_close ==
    /\ pc = "append_close"
    /\ openFds' = openFds - 1
    /\ \/ /\ CloseFault
          /\ Settle("append", FALSE, "EIO", <<>>, <<>>)
          /\ written' = [written EXCEPT !.partial = @ \/ disk.bytes # pre.disk.bytes]
       \/ /\ written' = IF frame.ok THEN [written EXCEPT !.records = @ \o frame.input]
                        ELSE [written EXCEPT !.partial = @ \/ disk.bytes # pre.disk.bytes]
          /\ Settle("append", frame.ok, frame.err, frame.name, <<>>)
          /\ UNCHANGED faults
    /\ UNCHANGED <<disk, memo, dbf, iter, delivered, pre, calls>>
    /\ UNCHANGED other

(***************************************************************************)
(* The specification.                                                      *)
(***************************************************************************)
Next ==
    \/ \E options \in OpenOptionsSet : openDBF_open(options)
    \/ openDBF_parse
    \/ openDBF_close
    \/ \E fields \in CreateFieldLists, v \in CreateVersions : createDBF_open(fields, v)
    \/ createDBF_header
    \/ createDBF_field
    \/ createDBF_term
    \/ createDBF_close
    \/ \E k \in ReadCounts : readRecords(k)
    \/ readRecords_chunk
    \/ readRecords_close
    \/ iterate_start
    \/ iterate_next
    \/ \E records \in AppendInputs(dbf.fields) : appendRecords(records)
    \/ appendRecords_record
    \/ appendRecords_eof
    \/ appendRecords_close
    \/ appendRecords_count

Spec == Init /\ [][Next]_vars

(***************************************************************************)
(* What the properties are stated in.                                      *)
(***************************************************************************)
\* the last call was `op`, it has settled, and nothing has begun since
Settled(op) == pc = "idle" /\ ~iter.active /\ result.op = op

\* the flag byte of record i of the file, for a handle h
FlagAt(bytes, h, i) == BufAt(bytes, h.headerLength + i * h.recordLength)

\* record i is one that h returns
IsEligible(bytes, h, i) == h.includeDeletedRecords \/ FlagAt(bytes, h, i) # 42

RECURSIVE EligibleIdx(_, _, _, _)
\* the numbers of the eligible records among from..to-1, in file order
EligibleIdx(bytes, h, from, to) ==
    IF from >= to THEN <<>>
    ELSE (IF IsEligible(bytes, h, from) THEN <<from>> ELSE <<>>)
           \o EligibleIdx(bytes, h, from + 1, to)

\* the file numbers of a list of returned records
Idx(records) == [k \in 1..Len(records) |-> records[k].idx]

\* the fields of record i, decoded where they lie in the file
FileRecord(bytes, h, i) ==
    DecodeFields(h.fields, 1, h.readMode, h.encoding, bytes,
                 h.headerLength + i * h.recordLength + 1, EmptyRecord, h.version,
                 NoMemo).record

\* the number of records of 0..n-1 flagged deleted
Deleted(bytes, h, n) == Cardinality({i \in 0..(n - 1) : FlagAt(bytes, h, i) = 42})

\* a successful read that began at record 0 and reached the end of the file
ReadAll ==
    /\ Settled("read") /\ result.ok
    /\ pre.dbf.recordsRead = 0
    /\ dbf.recordsRead = dbf.recordCount

(***************************************************************************)
(* C1.  The records returned by the successive readRecords calls on a      *)
(* handle, concatenated, are the first eligible records of the file, in    *)
(* file order, none repeated and none skipped, each as it lies in the      *)
(* file.                                                                   *)
(***************************************************************************)
C1_ReadsAreContiguous ==
    (dbf.live /\ pc = "idle") =>
        LET all == EligibleIdx(disk.bytes, dbf, 0, dbf.recordCount)
        IN  /\ Len(delivered) <= Len(all)
            /\ Idx(delivered) = SubSeq(all, 1, Len(delivered))
            /\ \A k \in 1..Len(delivered) :
                  delivered[k].vals = FileRecord(disk.bytes, dbf, delivered[k].idx)

\* the same, on a handle none of whose reads has failed so far: the cursor is
\* then exactly past the records returned
C1_ContiguousWhileNoReadFails ==
    (dbf.live /\ pc = "idle" /\ faults = 0) =>
        /\ Idx(delivered) = EligibleIdx(disk.bytes, dbf, 0, dbf.recordsRead)
        /\ \A k \in 1..Len(delivered) :
              delivered[k].vals = FileRecord(disk.bytes, dbf, delivered[k].idx)

(***************************************************************************)
(* C2.  A read of the whole file returns, in file order, the records whose *)
(* flag is not 0x2A (recordCount minus the deleted ones) without           *)
(* includeDeletedRecords, and all recordCount records with it, a record    *)
(* then being marked DELETED exactly when its flag is 0x2A.                *)
(***************************************************************************)
C2_ReadAllReturnsEligible ==
    ReadAll =>
        LET got == result.records
            n == dbf.recordCount
        IN  /\ Idx(got) = EligibleIdx(disk.bytes, dbf, 0, n)
            /\ \A k \in 1..Len(got) :
                  got[k].deleted = (dbf.includeDeletedRecords
                                      /\ FlagAt(disk.bytes, dbf, got[k].idx) = 42)
            /\ IF dbf.includeDeletedRecords
               THEN Idx(got) = [k \in 1..n |-> k - 1]
               ELSE /\ Len(got) = n - Deleted(disk.bytes, dbf, n)
                    /\ \A k \in 1..Len(got) : FlagAt(disk.bytes, dbf, got[k].idx) # 42
            /\ disk.bytes \in ExistingFiles =>
                  \A k \in 1..Len(got) : got[k].vals = ExistingRecords[got[k].idx + 1]

\* a whole file was read with includeDeletedRecords, some of it deleted
C2_Witness ==
    /\ ReadAll /\ dbf.includeDeletedRecords
    /\ disk.bytes \in ExistingFiles
    /\ Len(result.records) = 3
    /\ result.records[2].deleted /\ ~result.records[1].deleted

(***************************************************************************)
(* C3.  readRecords(k) returns min(k, e) records, e being the number of    *)
(* eligible records at or after the cursor; when it returns fewer than k   *)
(* the cursor has reached recordCount.                                     *)
(***************************************************************************)
C3_ReadReturnsMin ==
    (Settled("read") /\ result.ok) =>
        LET k == pre.maxCount
            e == Len(EligibleIdx(disk.bytes, dbf, pre.dbf.recordsRead, dbf.recordCount))
        IN  /\ Len(result.records) = Min(k, e)
            /\ Len(result.records) < k => dbf.recordsRead = dbf.recordCount

\* readRecords(1) returned one record and left eligible ones unread
C3_Witness ==
    /\ Settled("read") /\ result.ok
    /\ pre.maxCount = 1
    /\ Len(result.records) = 1
    /\ Len(EligibleIdx(disk.bytes, dbf, dbf.recordsRead, dbf.recordCount)) > 0

(***************************************************************************)
(* C4.  A successful appendRecords of n records on a handle with           *)
(* recordCount c writes the n frames, flag 0x20 first, at headerLength +   *)
(* (c+i)*recordLength in list order, 0x1A after the last, c+n into the     *)
(* handle and into the int32 at header offset 4, and changes nothing else: *)
(* no other byte of the file, not the cursor, nothing else of the handle.  *)
(***************************************************************************)
C4_AppendLayout ==
    (Settled("append") /\ result.ok) =>
        LET h == pre.dbf
            c == h.recordCount
            n == Len(pre.input)
            rl == h.recordLength
            start == h.headerLength + c * rl
            stop == h.headerLength + (c + n) * rl
            old == pre.disk.bytes
            new == disk.bytes
            frameOf(i) == EncodeRecord(h.fields, pre.input[i + 1], h.encoding,
                                       BufferAlloc(rl + 4)).buffer
        IN  /\ \A i \in 0..(n - 1) :
                  /\ new[start + i * rl + 1] = 32
                  /\ SubSeq(new, start + i * rl + 1, start + (i + 1) * rl)
                        = SubSeq(frameOf(i), 1, rl)
            /\ new[stop + 1] = 26
            /\ ReadInt32LE(new, 4) = c + n
            /\ Len(new) = Max(Len(old), stop + 1)
            /\ \A p \in 0..(Len(old) - 1) :
                  (p \notin 4..7 /\ (p < start \/ p > stop)) => new[p + 1] = old[p + 1]
            /\ dbf = [h EXCEPT !.recordCount = c + n]

\* two records were appended after the three the file held
C4_Witness ==
    /\ Settled("append") /\ result.ok
    /\ Len(pre.input) = 2
    /\ pre.dbf.recordCount = 3
    /\ Len(disk.bytes) = Len(pre.disk.bytes) + 2 * pre.dbf.recordLength

(***************************************************************************)
(* C5.  create, appendRecords(R), open, readRecords: for records whose     *)
(* values all fit their fields, the read returns the |R| records appended, *)
(* in order, each equal field by field to the one appended.                *)
(***************************************************************************)
\* the value fits the field, in the sense of the round trip
Fits(field, value) ==
    CASE field.type = "C" ->
            /\ value.t = "string"
            /\ Len(value.v) <= field.size
            /\ \A k \in 1..Len(value.v) : value.v[k] <= 255
            /\ Len(value.v) > 0 => value.v[Len(value.v)] # 32
      [] field.type \in {"N", "F"} ->
            value.t = "number" /\ Len(NumberToString(value.v[1])) <= field.size
      [] field.type = "L" -> value.t = "boolean"
      [] field.type = "D" -> value.t = "date" /\ Len(value.v) = 3
      [] field.type = "I" -> value.t = "number" /\ InInt32(value.v[1])
      [] field.type = "B" -> value.t = "number"
      [] OTHER -> FALSE

AllFit(fields, records) ==
    \A k \in 1..Len(records), j \in 1..Len(fields) :
        Fits(fields[j], Get(records[k], fields[j].name))

\* a whole file that create wrote, read through a handle that open returned
\* (open sets the version of the handle, create does not), no I/O error having
\* occurred on the way
RoundTripRead == ReadAll /\ written.known /\ dbf.version # 0 /\ faults = 0

C6_FailedAppendKeepsCount ==
    (Settled("append") /\ ~result.ok) => dbf.recordCount = pre.dbf.recordCount

(***************************************************************************)
(* C7.  After a failed readRecords the cursor is past no eligible record   *)
(* that the call was to return: the next call starts at the first record   *)
(* not yet returned.                                                       *)
(***************************************************************************)
C7_FailedReadKeepsCursor ==
    (Settled("read") /\ ~result.ok) =>
        \A i \in pre.dbf.recordsRead..(dbf.recordsRead - 1) :
            ~IsEligible(disk.bytes, dbf, i)

(***************************************************************************)
(* C8.  An iteration, once begun, ends: while it runs a step is always    *)
(* ready and every step lowers a natural-number rank, so only finitely     *)
(* many readRecords(100) calls are made.  When it ends normally it has     *)
(* yielded each eligible record between the cursor it began at and the end *)
(* of the file once, in file order, and the cursor equals recordCount.     *)
(***************************************************************************)
\* the rank of a state of a running iteration: the records still to read
\* first, then how far the readRecords call in progress has come
IterationRank ==
    IF pc = "read_close" /\ ~frame.ok THEN 0
    ELSE 4 * (dbf.recordCount - dbf.recordsRead)
           + (CASE pc = "read_close" -> 4 [] pc = "idle" -> 3 [] OTHER -> 2)

IterationProgress ==
    (iter.active /\ iter'.active) => (IterationRank' < IterationRank /\ IterationRank' >= 0)

IterationDone == Settled("iterate") /\ result.ok

IterationYieldsRest ==
    IterationDone =>
        /\ dbf.recordsRead = dbf.recordCount
        /\ Idx(result.records)
              = EligibleIdx(disk.bytes, dbf, pre.dbf.recordsRead, dbf.recordCount)
        /\ \A k \in 1..Len(result.records) :
              result.records[k].vals
                  = FileRecord(disk.bytes, dbf, result.records[k].idx)

\* a running iteration is at a point where its next step can be taken: the
\* loop test (iterate_next) or a step of the readRecords call in progress
IterationCanStep ==
    iter.active =>
        \/ pc = "idle" /\ dbf.live /\ ~dbf.memoPath
        \/ pc \in {"read_chunk", "read_close"}

MemoWriteUnsupported == "Writing to files with memo fields is not supported."

\* the field list passed to the last call has a field of type M
MemoFieldGiven == \E k \in 1..Len(pre.fields) : pre.fields[k].type = "M"

CreateOnExistingFails ==
    (Settled("create") /\ pre.disk.exists) => (~result.ok /\ disk = pre.disk)

C10_CreatedLayout ==
    (Settled("create") /\ result.ok) =>
        LET fields == pre.fields
            N == Len(fields)
            b == disk.bytes
        IN  /\ disk.exists
            /\ Len(b) = 34 + 32 * N + 1
            /\ ReadInt32LE(b, 4) = 0
            /\ ReadUInt16LE(b, 8) = 34 + 32 * N
            /\ ReadUInt16LE(b, 10) = 1 + SumSizes(fields, 1)
            /\ \A i \in 0..(N - 1) :
                  LET at == 32 + 32 * i
                      f == fields[i + 1]
                  IN  /\ SubSeq(b, at + 1, at + Len(f.name)) = f.name
                      /\ \A j \in Len(f.name)..10 : b[at + j + 1] = 0
                      /\ fromCharCode(b[at + 12]) = f.type
                      /\ b[at + 17] = f.size
                      /\ b[at + 18] = f.decimalPlaces
            /\ SubSeq(b, 32 + 32 * N + 1, 32 + 32 * N + 3) = <<13, 0, 26>>
            /\ b[ReadUInt16LE(b, 8) + 1] = 26
            /\ dbf.live /\ dbf.recordCount = 0 /\ dbf.recordsRead = 0
            /\ dbf.fields = fields

\* a file of two fields was created where there was none
C10_Witness ==
    /\ Settled("create") /\ result.ok
    /\ ~pre.disk.exists
    /\ Len(pre.fields) = 2
    /\ Len(disk.bytes) = 99

(***************************************************************************)
(* A second specification: a file that create wrote, with fields of every   *)
(* writable type, is appended to with values of the right type, of the      *)
(* wrong type, absent, and out of range, and read back.                     *)
(***************************************************************************)
\* the text 'x'
TextX == <<120>>

\* two fields of one name
FieldsDup == <<Field(NameA, "C", 2), Field(NameA, "N", 3)>>

\* a datetime field and a text field
FieldsTC == <<Field(NameA, "T", 8), Field(NameB, "C", 2)>>

\* a field whose name is u-umlaut
FieldsUmlaut == <<Field(<<252>>, "C", 2)>>

\* the field lists passed to create
TypedFieldLists == {FieldsCN, FieldsLI, FieldsDB, FieldsDup, FieldsTC, FieldsUmlaut}

\* the options passed to open
TypedOpenOptions ==
    {[readMode |-> "strict", encoding |-> Latin1, includeDeletedRecords |-> FALSE],
     [readMode |-> "loose", encoding |-> Latin1, includeDeletedRecords |-> FALSE],
     [readMode |-> "strict", encoding |-> Cp437, includeDeletedRecords |-> FALSE]}

\* the record lists passed to appendRecords, by the handle's field list
TypedInputs(fields) ==
    CASE fields = FieldsCN ->
            LET r1 == (NameA :> Str(TextX)) @@ (NameB :> Num(45))
                tooLong == (NameA :> Str(Rep(120, 256))) @@ (NameB :> Str(TextX))
                notNumber == (NameA :> Str(TextX)) @@ (NameB :> Str(TextX))
                absent == (NameA :> Null) @@ (NameB :> Null)
            IN  {<<r1, tooLong>>, <<notNumber>>, <<r1, absent>>}
      [] fields = FieldsLI ->
            LET r1 == (NameA :> Bool(TRUE)) @@ (NameB :> Num(-2))
                badBoth == (NameA :> Num(0)) @@ (NameB :> Str(TextX))
                badSecond == (NameA :> Bool(FALSE)) @@ (NameB :> Str(TextX))
                over == (NameA :> Bool(TRUE)) @@ (NameB :> Big(1))
                absent == (NameA :> Null)
            IN  {<<r1, badBoth>>, <<badSecond>>, <<r1, over>>, <<absent, r1>>}
      [] fields = FieldsDB ->
            LET r1 == (NameA :> Date(1999, 3, 25)) @@ (NameB :> Num(5))
                notDate == (NameA :> Str(<<49, 57, 57, 57>>)) @@ (NameB :> Num(5))
                absent == (NameB :> Null)
            IN  {<<r1, notDate>>, <<absent, r1>>}
      [] fields = FieldsTC ->
            LET r1 == (NameA :> DateTime(2013, 12, 12, 8, 30, 0)) @@ (NameB :> Str(TextX))
                r2 == (NameA :> DateTime(1999, 12, 31, 23, 59, 59)) @@ (NameB :> Str(TextX))
                r3 == (NameA :> DateTime(1970, 5, 29, 0, 0, 0)) @@ (NameB :> Str(TextX))
                absent == (NameB :> Str(TextX))
            IN  {<<r1, r2>>, <<r3>>, <<absent, r1>>}
      [] OTHER -> {<<>>}

\* no file is on disk at the start
InitTyped == Init /\ disk = NoFile

NextTyped ==
    \/ \E fields \in TypedFieldLists : createDBF_open(fields, 48)
    \/ createDBF_header
    \/ createDBF_field
    \/ createDBF_term
    \/ createDBF_close
    \/ \E records \in TypedInputs(dbf.fields) : appendRecords(records)
    \/ appendRecords_record
    \/ appendRecords_eof
    \/ appendRecords_count
    \/ appendRecords_close
    \/ readRecords(defaultMaxCount)
    \/ readRecords_chunk
    \/ readRecords_close
    \/ \E options \in TypedOpenOptions : openDBF_open(options)
    \/ openDBF_parse
    \/ openDBF_close

SpecTyped == InitTyped /\ [][NextTyped]_vars

(***************************************************************************)
(* C11.                                                                    *)
(***************************************************************************)
\* a value that is present and not of the type its field asks for
WrongType(field, value) ==
    /\ ~IsNullish(value)
    /\ \/ field.type = "C" /\ (value.t # "string" \/ Len(value.v) > 255)
       \/ field.type \in {"N", "F", "I"} /\ value.t \notin {"number", "NaN", "double"}
       \/ field.type = "D" /\ value.t # "date"
       \/ field.type = "L" /\ value.t # "boolean"

\* the positions of the fields of `record` that hold a value of the wrong type
WrongFields(fields, record) ==
    {j \in 1..Len(fields) : WrongType(fields[j], Get(record, fields[j].name))}

\* the positions of the records of the input that hold such a value
WrongRecords(fields, input) ==
    {k \in 1..Len(input) : WrongFields(fields, input[k]) # {}}

\* the least member of a non-empty set of numbers
Least(S) == CHOOSE x \in S : \A y \in S : x <= y

\* a value of the right type that the bytes of its field cannot hold
Unencodable(field, value) ==
    \/ field.type = "I" /\ IsBig(value)
    \/ field.type = "M"

\* the positions of the records of the input that hold such a value
UnencodableRecords(fields, input) ==
    {k \in 1..Len(input) :
        \E j \in 1..Len(fields) : Unencodable(fields[j], Get(input[k], fields[j].name))}

\* the bytes of a file from offset p on
BytesFrom(bytes, p) == SubSeq(bytes, p + 1, Len(bytes))

\* the last call was an append that no I/O error ended
AppendRan == Settled("append") /\ result.err \notin {"EIO", "ENOENT"}

\* the append failed at record k (1-based) naming field j of it, and left the
\* file from the frame of record k on as it was
RejectedAt(k, j) ==
    LET h == pre.dbf
    IN  /\ ~result.ok
        /\ result.name = h.fields[j].name
        /\ BytesFrom(disk.bytes, h.headerLength + (h.recordCount + k - 1) * h.recordLength)
             = BytesFrom(pre.disk.bytes,
                         h.headerLength + (h.recordCount + k - 1) * h.recordLength)

\* C11 as stated: an append that runs to its end rejects a record exactly when
\* one of its values is present and of the wrong type for its field; the error
\* then names the first such field of the first such record, and no frame of
\* that record is in the file.
C11_RejectsExactlyWrongType ==
    AppendRan =>
        LET wrong == WrongRecords(pre.dbf.fields, pre.input)
        IN  IF wrong = {} THEN result.ok
            ELSE RejectedAt(Least(wrong),
                            Least(WrongFields(pre.dbf.fields, pre.input[Least(wrong)])))

\* C11 amended: a record is rejected with an error that names a field exactly
\* when one of its values is present and of the wrong type; the field named is
\* the first such field of the first such record and no frame of that record
\* is in the file.  A record whose values all have the right type is rejected
\* as well, with a RangeError and no field name, when a value does not fit the
\* bytes of its field; no record after it is looked at.
C11_RejectsWrongTypeOrRange ==
    AppendRan =>
        LET wrong == WrongRecords(pre.dbf.fields, pre.input)
            unenc == UnencodableRecords(pre.dbf.fields, pre.input)
            firstWrong == Least(wrong)
            firstUnenc == Least(unenc)
        IN  CASE wrong = {} /\ unenc = {} -> result.ok
              [] wrong # {} /\ (unenc = {} \/ firstWrong <= firstUnenc) ->
                    RejectedAt(firstWrong,
                               Least(WrongFields(pre.dbf.fields, pre.input[firstWrong])))
              [] OTHER -> ~result.ok /\ result.name = <<>>

\* an append was rejected at its second record, whose first and second fields
\* both hold a value of the wrong type, after the frame of the first was written
C11_Witness ==
    /\ AppendRan /\ ~result.ok
    /\ Len(pre.input) = 2
    /\ WrongFields(pre.dbf.fields, pre.input[2]) = {1, 2}
    /\ result.name = NameA
    /\ disk.bytes # pre.disk.bytes

(***************************************************************************)
(* C12.                                                                    *)
(***************************************************************************)
\* what the claim has an absent value of a field read back as
BlankOf(field) == IF field.type = "C" THEN Str(<<>>) ELSE Null

\* a whole file that create wrote was read with no I/O error on the way
WrittenRead == ReadAll /\ written.known /\ faults = 0

\* C12: a value that is null or missing in an appended record is accepted for
\* a field of any writable type and reads back as '' for a C field and as null
\* for a field of any other type.
C12_AbsentReadsBackBlank ==
    WrittenRead =>
        /\ Len(result.records) = Len(written.records)
        /\ \A k \in 1..Len(written.records), j \in 1..Len(dbf.fields) :
              IsNullish(Get(written.records[k], dbf.fields[j].name)) =>
                  Get(result.records[k].vals, dbf.fields[j].name) = BlankOf(dbf.fields[j])

(***************************************************************************)
(* A third specification: tables of the versions that may have a memo file *)
(* beside them (0x83, 0x8b, 0x30), found on disk with or without it, are    *)
(* opened and read.                                                         *)
(***************************************************************************)
FieldsAM == <<Field(NameA, "C", 2), Field(NameB, "M", 10)>>

\* A dBase III or IV table with a memo field: fields A (C, 2) and B (M, 10),
\* header length 98, record length 13, three records whose memo references
\* are block 1, blank, and 0.
MemoTable(version) ==
    <<version, 114, 4, 14, 3, 0, 0, 0, 98, 0, 13, 0>> \o Rep(0, 20)
      \o <<65>> \o Rep(0, 10) \o <<67, 0, 0, 0, 0, 2, 0, 0, 0, 1>> \o Rep(0, 11)
      \o <<66>> \o Rep(0, 10) \o <<77, 0, 0, 0, 0, 10, 0, 0, 0, 1>> \o Rep(0, 11)
      \o <<13, 0>>
      \o <<32, 97, 32>> \o Rep(32, 9) \o <<49>>
      \o <<32, 98, 99>> \o Rep(32, 10)
      \o <<32, 100, 32>> \o Rep(48, 10)
      \o <<26>>

\* A Visual FoxPro table without memo fields: the dBase III table of above with
\* version byte 0x30.
FoxProTable == [ExistingFile(<<32, 32, 32>>) EXCEPT ![1] = 48]

\* a dBase IV memo file of block size 16 whose block 1 holds the text 'abc'
MemoFileIV ==
    <<2, 0, 0, 0, 16, 0, 0, 0>> \o Rep(0, 8)
      \o <<255, 255, 8, 0, 11, 0, 0, 0, 97, 98, 99>> \o Rep(0, 5)

\* a dBase III memo file (blocks of 512 bytes) whose block 1 holds 'abc'
MemoFileIII == Rep(0, 512) \o <<97, 98, 99, 26, 26>>

\* a FoxPro memo file of block size 16 with no block in use
MemoFileFpt == <<0, 0, 0, 1, 0, 0, 0, 16>> \o Rep(0, 8)

\* The same table with other memo references: the three records refer to
\* block 1, to block `second`, and to no block.
MemoTableTwo(version, second) ==
    <<version, 114, 4, 14, 3, 0, 0, 0, 98, 0, 13, 0>> \o Rep(0, 20)
      \o <<65>> \o Rep(0, 10) \o <<67, 0, 0, 0, 0, 2, 0, 0, 0, 1>> \o Rep(0, 11)
      \o <<66>> \o Rep(0, 10) \o <<77, 0, 0, 0, 0, 10, 0, 0, 0, 1>> \o Rep(0, 11)
      \o <<13, 0>>
      \o <<32, 97, 32>> \o Rep(32, 9) \o <<49>>
      \o <<32, 98, 99>> \o Rep(32, 9) \o <<48 + second>>
      \o <<32, 100, 32>> \o Rep(32, 10)
      \o <<26>>

\* a dBase IV memo file of block size 16 with two memos of 24 bytes, each in
\* two blocks: 'abcdefgh' 'ijklmnopqrstuvwx' from block 1, and from block 3 a
\* memo whose second block begins with the bytes FF FF 08 00
MemoFileIVLong ==
    <<5, 0, 0, 0, 16, 0, 0, 0>> \o Rep(0, 8)
      \o <<255, 255, 8, 0, 32, 0, 0, 0>> \o <<97, 98, 99, 100, 101, 102, 103, 104>>
      \o <<105, 106, 107, 108, 109, 110, 111, 112, 113, 114, 115, 116, 117, 118, 119, 120>>
      \o <<255, 255, 8, 0, 32, 0, 0, 0>> \o <<65, 66, 67, 68, 69, 70, 71, 72>>
      \o <<255, 255, 8, 0, 16, 0, 0, 0>> \o <<73, 74, 75, 76, 77, 78, 79, 80>>

\* a dBase IV memo file of block size 16 that ends inside its last block:
\* block 1 holds 'abcdefgh', block 2 declares 5 bytes of which the file has 'xy'
MemoFileIVShort ==
    <<3, 0, 0, 0, 16, 0, 0, 0>> \o Rep(0, 8)
      \o <<255, 255, 8, 0, 16, 0, 0, 0>> \o <<97, 98, 99, 100, 101, 102, 103, 104>>
      \o <<255, 255, 8, 0, 13, 0, 0, 0>> \o <<120, 121>>

\* the table and the memo file found on disk at the start
MemoFixtures ==
    {<<MemoTable(139), NoFile>>, <<MemoTable(139), [exists |-> TRUE, bytes |-> MemoFileIV]>>,
     <<MemoTable(131), NoFile>>, <<MemoTable(131), [exists |-> TRUE, bytes |-> MemoFileIII]>>,
     <<FoxProTable, NoFile>>, <<FoxProTable, [exists |-> TRUE, bytes |-> MemoFileFpt]>>,
     <<MemoTableTwo(139, 2), [exists |-> TRUE, bytes |-> MemoFileIV]>>,
     <<MemoTableTwo(139, 3), [exists |-> TRUE, bytes |-> MemoFileIVLong]>>,
     <<MemoTableTwo(139, 2), [exists |-> TRUE, bytes |-> MemoFileIVShort]>>,
     <<MemoTableTwo(131, 2), [exists |-> TRUE, bytes |-> MemoFileIII]>>}

InitMemo ==
    /\ \E fx \in MemoFixtures :
          disk = [exists |-> TRUE, bytes |-> fx[1]] /\ memo = fx[2]
    /\ openFds = 0
    /\ dbf = NoDbf
    /\ pc = "idle"
    /\ frame = NoFrame
    /\ iter = NoIter
    /\ result = NoResult
    /\ delivered = <<>>
    /\ pre = Snapshot
    /\ written = [known |-> FALSE, records |-> <<>>, partial |-> FALSE]
    /\ calls = [handles |-> 0, ops |-> 0]
    /\ faults = 0
    /\ other = Handle

NextMemo ==
    \/ \E options \in OpenOptionsSet : openDBF_open(options)
    \/ openDBF_parse
    \/ openDBF_close
    \/ \E k \in ReadCounts : readRecords(k)
    \/ readRecords_memoOpen
    \/ readRecords_memoSize
    \/ readRecords_memoStat
    \/ readRecords_chunk
    \/ readRecords_close
    \/ readRecords_memoClose

SpecMemo == InitMemo /\ [][NextMemo]_vars

(***************************************************************************)
(* C13.                                                                    *)
(***************************************************************************)
MemoFileNotFound == "Memo file not found"

\* the version byte of the file on disk
VersionOnDisk == disk.bytes[1]

\* an open ran to its end with no I/O error, no memo file being on disk
OpenedWithoutMemo ==
    Settled("open") /\ result.err \notin {"EIO", "ENOENT"} /\ ~memo.exists

\* a read through a handle without memo file returned records
ReadWithoutMemo == Settled("read") /\ result.ok /\ ~memo.exists

\* no record returned holds a value for a memo field
NoMemoValues ==
    \A k \in 1..Len(result.records), j \in 1..Len(dbf.fields) :
        dbf.fields[j].type = "M" =>
            IsNullish(Get(result.records[k].vals, dbf.fields[j].name))

\* the step at which an open that no I/O error ended settles, no memo file
\* being on disk
OpenCompletesWithoutMemo ==
    pc = "open_close" /\ pc' = "idle" /\ result'.err # "EIO" /\ ~memo.exists

\* C13 as stated: with no memo file at any candidate path, a strict open of a
\* file of version 0x83, 0x8b or 0x30 fails with the missing-memo-file error; a
\* loose open of it succeeds and the records read hold no memo values.
C13_MissingMemoFile ==
    /\ [][(OpenCompletesWithoutMemo /\ VersionOnDisk \in {131, 139, 48}) =>
            IF frame.options.readMode = "loose" THEN result'.ok
            ELSE ~result'.ok /\ result'.err = MemoFileNotFound]_vars
    /\ [](ReadWithoutMemo => NoMemoValues)

\* C13 amended: the strict open fails with the missing-memo-file error for the
\* versions 0x83 and 0x8b; a file of version 0x30 may have no memo file and its
\* strict open succeeds.  A loose open succeeds for all three and the records
\* read hold no memo values.
C13_MissingMemoFileDBase ==
    /\ [][(OpenCompletesWithoutMemo /\ VersionOnDisk \in {131, 139, 48}) =>
            IF frame.options.readMode = "loose" \/ VersionOnDisk = 48
            THEN result'.ok /\ ~dbf'.memoPath
            ELSE ~result'.ok /\ result'.err = MemoFileNotFound]_vars
    /\ [](ReadWithoutMemo => NoMemoValues)

\* a dBase IV table opened in loose mode without its memo file was read: all
\* three records came back, the first without a key for its memo field
C13_Witness ==
    /\ ReadWithoutMemo
    /\ dbf.readMode = "loose"
    /\ VersionOnDisk = 139
    /\ Len(result.records) = 3
    /\ NameB \notin DOMAIN result.records[1].vals
    /\ Get(result.records[2].vals, NameB) = Null

(***************************************************************************)
(* C14.                                                                    *)
(***************************************************************************)
\* no two descriptors of the list share a name
DistinctNames(fields) ==
    \A j, k \in 1..Len(fields) : j # k => fields[j].name # fields[k].name

\* C14: every handle that create or a strict open returned has pairwise
\* distinct field names.
C14_DistinctFieldNames ==
    (dbf.live /\ dbf.readMode = "strict") => DistinctNames(dbf.fields)

(***************************************************************************)
(* A fourth specification: two DBFFile instances are opened on the same    *)
(* file and read, the steps of their calls interleaved in every way.  The  *)
(* variables dbf, pc, frame, iter, result, delivered, pre are those of the *)
(* instance whose continuation runs next; `other` holds the second one.    *)
(***************************************************************************)
\* the instance fields and locals in effect after a switch when the cursor is
\* one variable shared by all instances: C15 fails of it
ResumeSharedCursor(parked, running) ==
    [parked EXCEPT !.dbf.recordsRead = running.dbf.recordsRead]

\* The instance fields (_recordsRead, recordCount, ...) belong to the DBFFile
\* object and fd, buffer, records are locals of the call: what is in effect
\* after a switch is what the parked instance held.
Resume(parked, running) == parked

\* The event loop turns from one instance's call to the other's.
Switch ==
    /\ other' = Handle
    /\ LET h == Resume(other, Handle)
       IN  /\ dbf' = h.dbf
           /\ pc' = h.pc
           /\ frame' = h.frame
           /\ iter' = h.iter
           /\ result' = h.result
           /\ delivered' = h.delivered
           /\ pre' = h.pre
    /\ UNCHANGED <<disk, memo, openFds, written, calls, faults>>

InitTwoReaders == Init /\ disk.exists

NextTwoReaders ==
    \/ \E options \in OpenOptionsSet : openDBF_open(options)
    \/ openDBF_parse
    \/ openDBF_close
    \/ \E k \in ReadCounts : readRecords(k)
    \/ readRecords_chunk
    \/ readRecords_close
    \/ Switch

SpecTwoReaders == InitTwoReaders /\ [][NextTwoReaders]_vars

(***************************************************************************)
(* C15.                                                                    *)
(***************************************************************************)
\* what an instance has returned so far is what it returns when it is the only
\* one: the eligible records from record 0 up to its cursor, in file order,
\* each as it lies in the file; and its record count is the one of the header
ReadsAsAlone(h) ==
    (h.dbf.live /\ h.pc = "idle") =>
        /\ Idx(h.delivered) = EligibleIdx(disk.bytes, h.dbf, 0, h.dbf.recordsRead)
        /\ \A k \in 1..Len(h.delivered) :
              h.delivered[k].vals = FileRecord(disk.bytes, h.dbf, h.delivered[k].idx)
        /\ h.dbf.recordCount = ReadInt32LE(disk.bytes, 4)

\* a step of the call of one instance
StepOfOne == other' = other

\* C15: of two instances that only read the same file, each returns under
\* every interleaving of their steps the records it returns when it is alone
\* (no read having failed), and no step of one changes the cursor or the
\* record count of the other.
C15_ReadersIndependent ==
    /\ [](faults = 0 => ReadsAsAlone(Handle) /\ ReadsAsAlone(other))
    /\ [][StepOfOne \/ (other' = Handle /\ dbf' = other.dbf)]_vars

\* one instance has returned records while a call of the other, begun before,
\* has read a chunk and is not yet settled
C15_Witness ==
    /\ faults = 0
    /\ dbf.live /\ pc = "idle" /\ Len(delivered) >= 1
    /\ other.dbf.live /\ other.pc = "read_close" /\ Len(other.frame.records) >= 1
    /\ other.dbf.recordsRead # dbf.recordsRead

(***************************************************************************)
(* C16.                                                                    *)
(***************************************************************************)
\* C16: when a call of open, create, readRecords or appendRecords has
\* completed, by returning or by failing at any of its steps, every OS file
\* handle it opened (of the data file and of the memo file) has been closed.
C16_AllHandlesClosed == pc = "idle" => openFds = 0

(***************************************************************************)
(* C17.                                                                    *)
(***************************************************************************)
\* C17: a datetime appended to a T field reads back as the same datetime; a
\* datetime that is not null never reads back as null.
C17_DateTimeRoundTrip ==
    WrittenRead =>
        /\ Len(result.records) = Len(written.records)
        /\ \A k \in 1..Len(written.records), j \in 1..Len(dbf.fields) :
              (dbf.fields[j].type = "T"
                 /\ ~IsNullish(Get(written.records[k], dbf.fields[j].name))) =>
                  Get(result.records[k].vals, dbf.fields[j].name)
                      = Get(written.records[k], dbf.fields[j].name)

(***************************************************************************)
(* C18.                                                                    *)
(***************************************************************************)
\* the name in descriptor j (1-based) of the file, its bytes up to the first
\* null read as ISO-8859-1: byte b is character b
Latin1Name(bytes, j) == UpToNul(BufSlice(bytes, 32 * j, 32 * j + 10), 1)

\* C18: the field names of a handle that open returned are the name bytes of
\* the descriptors decoded as ISO-8859-1, whatever the encoding option, so that
\* two opens of one file with different encodings yield the same names.
C18_NamesAreLatin1 ==
    (dbf.live /\ dbf.version # 0) =>
        \A j \in 1..Len(dbf.fields) : dbf.fields[j].name = Latin1Name(disk.bytes, j)

(***************************************************************************)
(* C19.                                                                    *)
(***************************************************************************)
\* the bytes of the frame of record k (0-based) of the file, for a handle h
FrameAt(bytes, h, k) ==
    SubSeq(bytes, h.headerLength + k * h.recordLength + 1,
           h.headerLength + (k + 1) * h.recordLength)

\* the frame appendRecords writes for `record` through handle h
FrameOf(h, record) ==
    SubSeq(EncodeRecord(h.fields, record, h.encoding,
                        BufferAlloc(h.recordLength + 4)).buffer,
           1, h.recordLength)

\* the file holds exactly the given records: the header counts them, their
\* frames follow the header in order, and the end-of-file marker follows them
FileHolds(bytes, h, records) ==
    /\ ReadInt32LE(bytes, 4) = Len(records)
    /\ Len(bytes) >= h.headerLength + Len(records) * h.recordLength + 1
    /\ \A k \in 1..Len(records) : FrameAt(bytes, h, k - 1) = FrameOf(h, records[k])
    /\ bytes[h.headerLength + Len(records) * h.recordLength + 1] = 26

\* C19: when an append has failed after writing some frames, the next
\* successful append on the handle starts at the record count of before the
\* failed call: the file then holds the records of the successful calls, those
\* of the last call last, and none of the failed call.
C19_AppendAfterFailedAppend ==
    (Settled("append") /\ result.ok /\ written.known /\ written.partial) =>
        FileHolds(disk.bytes, dbf, written.records)

(***************************************************************************)
(* C20.                                                                    *)
(***************************************************************************)
InAppend == pc \in {"append_record", "append_eof", "append_count", "append_close"}

\* the record count a handle opened now would take from the header
HeaderCount(bytes) == ReadInt32LE(bytes, 4)

\* every frame the header counts lies within the file
FramesComplete(bytes, h) ==
    Len(bytes) >= h.headerLength + HeaderCount(bytes) * h.recordLength

\* the header has been given the count of this call
CountWritten == HeaderCount(disk.bytes) # HeaderCount(pre.disk.bytes)

\* C20: at every point of an append the frames counted by the header of the
\* file are completely written: until the count is written the header and the
\* frames it counts are those of before the call, and once it is written
\* every frame of the call and the end-of-file marker are in the file.
C20_CountedFramesAreWritten ==
    InAppend =>
        /\ FramesComplete(pre.disk.bytes, dbf) => FramesComplete(disk.bytes, dbf)
        /\ ~CountWritten =>
              \A k \in 0..(HeaderCount(disk.bytes) - 1) :
                  FramesComplete(pre.disk.bytes, dbf) =>
                      FrameAt(disk.bytes, dbf, k) = FrameAt(pre.disk.bytes, dbf, k)
        /\ CountWritten =>
              /\ HeaderCount(disk.bytes) = pre.dbf.recordCount + Len(frame.input)
              /\ \A k \in 1..Len(frame.input) :
                    FrameAt(disk.bytes, dbf, pre.dbf.recordCount + k - 1)
                        = FrameOf(dbf, frame.input[k])
              /\ disk.bytes[dbf.headerLength
                            + HeaderCount(disk.bytes) * dbf.recordLength + 1] = 26

\* one frame of two is written and the header still has the old count
C20_Witness ==
    /\ pc = "append_record"
    /\ Len(frame.input) = 2
    /\ frame.i = 1
    /\ disk.bytes # pre.disk.bytes
    /\ ~CountWritten

(***************************************************************************)
(* C21.                                                                    *)
(***************************************************************************)
\* a step that leaves the caller with the handle it had
KeepsHandle == dbf.live /\ dbf'.live /\ pc \notin {"open_close", "create_close"}

CursorInRange == dbf.live => (0 <= dbf.recordsRead /\ dbf.recordsRead <= dbf.recordCount)

NeverDecreases ==
    KeepsHandle => /\ dbf'.recordsRead >= dbf.recordsRead
                   /\ dbf'.recordCount >= dbf.recordCount

\* C21: on a handle of a file whose header count is not negative, through
\* every sequence of reads, iterations and appends, failed ones included, the
\* cursor stays between 0 and the record count, and no step of a call lowers
\* the cursor or the record count.
C21_CursorWithinCount == []CursorInRange /\ [][NeverDecreases]_vars

\* an append has raised the count of a handle whose cursor had moved
C21_Witness ==
    /\ Settled("append")
    /\ dbf.recordsRead > 0
    /\ dbf.recordCount > pre.dbf.recordCount
    /\ ReadInt32LE(pre.disk.bytes, 4) >= 0

(***************************************************************************)
(* C22.                                                                    *)
(***************************************************************************)
\* the byte that follows the frames the header counts is the end-of-file marker
MarkerAfterCounted(bytes, h) ==
    LET p == h.headerLength + HeaderCount(bytes) * h.recordLength
    IN  p + 1 <= Len(bytes) /\ bytes[p + 1] = 26

PastEndError == "Error reading memo file (read past end)."

\* the block size readRecords takes from the memo file of the handle
MemoBlockSize ==
    memoBlockSizeOf(dbf.version,
                    IF dbf.version = 48 THEN FsRead(memo.bytes, 6, 2)
                    ELSE FsRead(memo.bytes, 4, 4))

\* the number of the first memo block of record i of the file (0 when blank)
MemoRef(i) ==
    LET ref == parseInt(iconvDecode(SubSeq(FrameAt(disk.bytes, dbf, i), 4, 13), Latin1))
    IN  IF ref.t = "number" THEN ref.v[1] ELSE 0

\* the records the last call read, by their number in the file
ReadRange == pre.dbf.recordsRead .. (dbf.recordsRead - 1)

\* a read of a table of version 0x83 or 0x8b with its memo file has settled,
\* no I/O error injected
MemoReadSettled ==
    /\ Settled("read") /\ faults = 0
    /\ dbf.live /\ dbf.memoPath /\ memo.exists
    /\ dbf.version \in {131, 139}
    /\ dbf.fields = FieldsAM

\* the memo value the call returned for record i of the file
ReturnedMemo(i) ==
    LET k == CHOOSE k \in 1..Len(result.records) : result.records[k].idx = i
    IN  Get(result.records[k].vals, NameB)

\* C23 (the case of the first block of a memo): when a record read by the call
\* refers to a memo block that starts at or after the end of the memo file,
\* the call fails with the read-past-end error.
C23_PastEndFails ==
    (MemoReadSettled /\ \E i \in ReadRange :
                           MemoRef(i) >= 1 /\ MemoRef(i) * MemoBlockSize >= Len(memo.bytes))
        => (~result.ok /\ result.err = PastEndError)

\* the dBase IV memo that starts at block b: its header is in the file, it
\* declares a length of at least 8, and every block it covers is in the file
MemoIVInside(b) ==
    LET p == b * MemoBlockSize
        L == ReadUInt32LE(FsRead(memo.bytes, p, 8), 4)
    IN  /\ p + 8 <= Len(memo.bytes)
        /\ SubSeq(memo.bytes, p + 1, p + 4) = <<255, 255, 8, 0>>
        /\ L >= 8
        /\ (b + ((L + MemoBlockSize - 1) \div MemoBlockSize)) * MemoBlockSize
              <= Len(memo.bytes)

\* the L - 8 bytes that follow the header of the memo at block b
MemoIVData(b) ==
    LET p == b * MemoBlockSize
        L == ReadUInt32LE(FsRead(memo.bytes, p, 8), 4)
    IN  SubSeq(memo.bytes, p + 9, p + L)

\* C24: a dBase IV memo of declared length L >= 8 whose blocks are all in the
\* memo file is decoded as the L - 8 bytes that follow its 8-byte header,
\* whatever those bytes are.
C24_MemoIVIsItsData ==
    (MemoReadSettled /\ dbf.version = 139) =>
        \A i \in ReadRange :
            (MemoRef(i) >= 1 /\ MemoIVInside(MemoRef(i))) =>
                /\ result.ok
                /\ ReturnedMemo(i) = Str(iconvDecode(MemoIVData(MemoRef(i)), dbf.encoding))

\* the bytes of the memo file from the start of block b on
FromBlock(b) == FsRead(memo.bytes, b * MemoBlockSize, Len(memo.bytes))

\* C25: a memo value is built from bytes read from the memo file for its own
\* blocks: it is no longer than what the file holds from the memo's first
\* block on, and each of its bytes is one of those.
C25_MemoFromOwnBlocks ==
    (MemoReadSettled /\ result.ok) =>
        \A i \in ReadRange :
            (MemoRef(i) >= 1 /\ ReturnedMemo(i).t = "string") =>
                LET text == iconvEncode(ReturnedMemo(i).v, dbf.encoding)
                    own == FromBlock(MemoRef(i))
                IN  /\ Len(text) <= Len(own)
                    /\ \A k \in 1..Len(text) : \E p \in 1..Len(own) : own[p] = text[k]

(***************************************************************************)
(* A fifth specification: create writes a table, narrow or wide, and the   *)
(* file is opened again in strict mode.                                    *)
(***************************************************************************)
\* the number of C fields of size 255 that takes the record length past 32767
WideFieldCount == 129

\* the name of the k-th field of the wide table: two capital letters
WideName(k) == <<65 + (k \div 26), 65 + (k % 26)>>

\* a table of WideFieldCount fields of type C and size 255: header length 4162,
\* record length 32896
FieldsWide == [k \in 1..WideFieldCount |-> Field(WideName(k), "C", 255)]

StrictOptions ==
    [readMode |-> "strict", encoding |-> Latin1, includeDeletedRecords |-> FALSE]

InitWide == Init /\ disk = NoFile

NextWide ==
    \/ \E fields \in {FieldsCN, FieldsWide} : createDBF_open(fields, 3)
    \/ createDBF_header
    \/ createDBF_field
    \/ createDBF_term
    \/ createDBF_close
    \/ openDBF_open(StrictOptions)
    \/ openDBF_parse
    \/ openDBF_close

SpecWide == InitWide /\ [][NextWide]_vars

(***************************************************************************)
(* C27.                                                                    *)
(***************************************************************************)
\* a strict open of the file that create wrote through the handle held before
\* has settled, no I/O error injected
ReopenSettled ==
    /\ Settled("open") /\ faults = 0
    /\ written.known /\ pre.dbf.live /\ pre.disk = disk

\* C27: a file that create wrote opens again in strict mode with the field
\* list, the header length and the record length it was created with.
C27_CreatedFileReopens ==
    ReopenSettled =>
        /\ result.ok
        /\ dbf.fields = pre.dbf.fields
        /\ dbf.headerLength = 34 + 32 * Len(pre.dbf.fields)
        /\ dbf.recordLength = calculateRecordLengthInBytes(pre.dbf.fields)


\* ---------------------------------------------------------------------------
\* C30: a create that fails leaves no file at the path unless one was there
\* before the call, whatever the failure: a value that does not fit its byte
\* field, or a write that fails, after the file was opened for writing.
CreateFailed == Settled("create") /\ ~result.ok

C30_FailedCreateLeavesNoFile ==
    (CreateFailed /\ ~pre.disk.exists) => ~disk.exists

\* the same for the failures before `open(path, 'wx')` has created the file
C30_FailedBeforeOpenLeavesNoFile ==
    (CreateFailed /\ ~pre.disk.exists /\ result.err \notin {"EIO", "RangeError"})
        => ~disk.exists

\* a create that failed at a write, or at a value out of range, on a fresh path
C30_FailedAfterOpen ==
    CreateFailed /\ ~pre.disk.exists /\ result.err \in {"EIO", "RangeError"}
        /\ disk.exists


(***************************************************************************)
(* A specification of create on one descriptor drawn from the boundaries   *)
(* of the validator's rules: name lengths 0, 1, 10, 11; the nine types and *)
(* an unknown one; sizes around each type's limit; decimal places around   *)
(* 15 and 18; file versions 0x03 and 0x8b.                                 *)
(***************************************************************************)
DescriptorNames == {<<>>, <<65>>, Rep(65, 10), Rep(65, 11)}

DescriptorTypes == FieldTypes \cup {"X"}

\* every size here fits the descriptor's size byte (`writeUInt8(size, 0x10)`)
\* when the validator accepts it
DescriptorSizes(type) ==
    CASE type = "C" -> {0, 1, 255, 256}
      [] type \in {"N", "F"} -> {0, 1, 20, 21}
      [] OTHER -> {0, 1, 2, 4, 8, 10, 11}

DescriptorDecimals == {0, 15, 16, 18, 19}

DescriptorVersions == {3, 139}

Descriptors ==
    UNION {[name : DescriptorNames, type : {type}, size : DescriptorSizes(type),
            decimalPlaces : DescriptorDecimals] : type \in DescriptorTypes}

InitDescriptors == Init /\ disk = NoFile

\* one call of create per run
NextDescriptors ==
    \/ /\ calls.handles = 0
       /\ \E field \in Descriptors, v \in DescriptorVersions :
              createDBF_open(<<field>>, v)
    \/ createDBF_header
    \/ createDBF_field
    \/ createDBF_term
    \/ createDBF_close

SpecDescriptors == InitDescriptors /\ [][NextDescriptors]_vars

\* the rule of the size per type, as stated
SizeRule(type, size) ==
    CASE type = "C" -> size <= 255
      [] type \in {"N", "F"} -> size <= 20
      [] type = "L" -> size = 1
      [] type \in {"D", "T", "B"} -> size = 8
      [] type = "I" -> size = 4
      [] type = "M" -> size = 10
      [] OTHER -> FALSE

\* the descriptors the stated rule accepts
StatedRule(field, version) ==
    /\ Len(field.name) >= 1 /\ Len(field.name) <= 10
    /\ field.type \in {"C", "N", "F", "L", "D", "I", "M", "T", "B"}
    /\ field.size >= 1 /\ SizeRule(field.type, field.size)
    /\ field.decimalPlaces <= (IF version = 139 THEN 18 ELSE 15)

\* the messages of the validator
ValidatorErrors ==
    {"Field name is too short", "Field name is too long", "Type is not supported",
     "Field size is too small", "Field size is too large", "Invalid field size",
     "Decimal count is too large", "Too many fields"}

\* a create has settled that got past the validator, or was stopped by it
PastValidator == result.ok \/ result.err \notin ValidatorErrors

\* C29: the validator accepts a descriptor if and only if its name is 1 to 10
\* characters long, its type is one of the nine, its size is at least 1 and
\* meets the rule of its type (I exactly 4 among them), and its decimal places
\* are at most 15, or 18 for version 0x8b.
C29_ValidatorAcceptsExactly ==
    Settled("create") =>
        (PastValidator <=> StatedRule(pre.fields[1], pre.fileVersion))

\* the same for every type but I
C29_ExactForOtherTypes ==
    (Settled("create") /\ pre.fields[1].type # "I") =>
        (PastValidator <=> StatedRule(pre.fields[1], pre.fileVersion))

\* a file was created with an I field whose size is not 4
C29_IntegerOfOtherSize ==
    /\ Settled("create") /\ result.ok
    /\ pre.fields[1].type = "I" /\ pre.fields[1].size # 4


(***************************************************************************)
(* A specification of open and readRecords on Visual FoxPro tables with    *)
(* one T field, as another program left them: two records whose times of   *)
(* day are not all whole seconds.                                          *)
(***************************************************************************)
NameT == <<84>>

FieldsT == <<Field(NameT, "T", 8)>>

\* the Julian day of 2013-12-12
StampDay == 2456639

\* milliseconds since midnight, at and just below the turn of a second, of a
\* minute and of an hour
StampTimes == {0, 999, 1000, 59999, 3599999, 30600000, 86399000}

\* version 0x30, last update 2014-04-14, header length 66, record length 9
StampTable(m1, m2) ==
    <<48, 114, 4, 14, 2, 0, 0, 0, 66, 0, 9, 0>> \o Rep(0, 20)
      \o NameT \o Rep(0, 10) \o <<84, 0, 0, 0, 0, 8, 0, 0, 0, 1>> \o Rep(0, 11)
      \o <<13, 0>>
      \o <<32>> \o Int32LE(StampDay) \o Int32LE(m1)
      \o <<32>> \o Int32LE(StampDay) \o Int32LE(m2)
      \o <<26>>

InitStamps ==
    /\ \E m1, m2 \in StampTimes : disk = [exists |-> TRUE, bytes |-> StampTable(m1, m2)]
    /\ memo = NoFile
    /\ openFds = 0
    /\ dbf = NoDbf
    /\ pc = "idle"
    /\ frame = NoFrame
    /\ iter = NoIter
    /\ result = NoResult
    /\ delivered = <<>>
    /\ pre = Snapshot
    /\ written = [known |-> FALSE, records |-> <<>>, partial |-> FALSE]
    /\ calls = [handles |-> 0, ops |-> 0]
    /\ faults = 0
    /\ other = Handle

NextStamps ==
    \/ \E options \in OpenOptionsSet : openDBF_open(options)
    \/ openDBF_parse
    \/ openDBF_close
    \/ \E k \in ReadCounts : readRecords(k)
    \/ readRecords_chunk
    \/ readRecords_close

SpecStamps == InitStamps /\ [][NextStamps]_vars

\* a read of such a table has settled
StampReadSettled ==
    /\ Settled("read") /\ result.ok
    /\ dbf.live /\ dbf.fields = FieldsT

\* the milliseconds since midnight record i of the file stores
StoredMs(i) == ReadInt32LE(FrameAt(disk.bytes, dbf, i), 5)

\* hours, minutes and seconds of m milliseconds since midnight
TimeOfDay(m) == <<m \div 3600000, (m % 3600000) \div 60000, (m % 60000) \div 1000>>

\* C28: a non-null T field whose stored milliseconds since midnight are m,
\* 0 <= m < 86,400,000, is read as the time of day with hours m / 3,600,000,
\* minutes (m mod 3,600,000) / 60,000 and seconds (m mod 60,000) / 1000, all
\* rounded down and computed from m as stored.
C28_TimeOfDayAsStored ==
    StampReadSettled =>
        \A k \in 1..Len(result.records) :
            LET value == Get(result.records[k].vals, NameT)
            IN  /\ value.t = "date" /\ Len(value.v) = 6
                /\ SubSeq(value.v, 4, 6) = TimeOfDay(StoredMs(result.records[k].idx))

\* the same for the times of day that are whole seconds
C28_WholeSecondsAsStored ==
    StampReadSettled =>
        \A k \in 1..Len(result.records) :
            LET value == Get(result.records[k].vals, NameT)
                m == StoredMs(result.records[k].idx)
            IN  m % 1000 = 0 =>
                    /\ value.t = "date" /\ Len(value.v) = 6
                    /\ SubSeq(value.v, 4, 6) = TimeOfDay(m)

\* a record whose stored time of day ends one millisecond before a full second
\* was read
C28_ReadBelowFullSecond ==
    /\ StampReadSettled
    /\ \E k \in 1..Len(result.records) : StoredMs(result.records[k].idx) % 1000 = 999


(***************************************************************************)
(* A specification of open and readRecords on dBase III tables of two      *)
(* records and two fields, as another program left them: field A of a      *)
(* known or unknown type and of a size the validator may or may not take,  *)
(* then field B (C, 2).                                                    *)
(***************************************************************************)
\* type and size of field A
LayoutKinds ==
    {<<"C", 3>>, <<"N", 3>>, <<"L", 1>>, <<"L", 2>>, <<"D", 8>>, <<"D", 10>>,
     <<"I", 4>>, <<"Y", 3>>}

FieldsLayout(kind) == <<Field(NameA, kind[1], kind[2]), Field(NameB, "C", 2)>>

\* the bytes of field A in both records: a value of the type, padded with 'x'
LayoutFill(kind) ==
    LET head == CASE kind[1] = "L" -> <<84>>
                  [] kind[1] = "D" -> <<50, 48, 49, 51, 49, 50, 49, 50>>
                  [] kind[1] = "N" -> <<32, 49, 50>>
                  [] kind[1] = "I" -> <<7, 0, 0, 0>>
                  [] OTHER -> <<>>
    IN  [i \in 1..kind[2] |-> IF i <= Len(head) THEN head[i] ELSE 120]

\* version 0x03, last update 2014-04-14, header length 98, record length
\* 1 + size of A + 2; flag is the deleted flag of the second record
LayoutTable(kind, flag) ==
    <<3, 114, 4, 14, 2, 0, 0, 0, 98, 0, 3 + kind[2], 0>> \o Rep(0, 20)
      \o NameA \o Rep(0, 10)
      \o <<charCodeAt(kind[1]), 0, 0, 0, 0, kind[2], 0, 0, 0, 1>> \o Rep(0, 11)
      \o NameB \o Rep(0, 10) \o <<67, 0, 0, 0, 0, 2, 0, 0, 0, 1>> \o Rep(0, 11)
      \o <<13, 0>>
      \o <<32>> \o LayoutFill(kind) \o <<97, 98>>
      \o <<flag>> \o LayoutFill(kind) \o <<99, 100>>
      \o <<26>>

InitLayout ==
    /\ \E kind \in LayoutKinds, flag \in {32, 42} :
          disk = [exists |-> TRUE, bytes |-> LayoutTable(kind, flag)]
    /\ memo = NoFile
    /\ openFds = 0
    /\ dbf = NoDbf
    /\ pc = "idle"
    /\ frame = NoFrame
    /\ iter = NoIter
    /\ result = NoResult
    /\ delivered = <<>>
    /\ pre = Snapshot
    /\ written = [known |-> FALSE, records |-> <<>>, partial |-> FALSE]
    /\ calls = [handles |-> 0, ops |-> 0]
    /\ faults = 0
    /\ other = Handle

NextLayout ==
    \/ \E options \in OpenOptionsSet : openDBF_open(options)
    \/ openDBF_parse
    \/ openDBF_close
    \/ \E k \in ReadCounts : readRecords(k)
    \/ readRecords_chunk
    \/ readRecords_close

SpecLayout == InitLayout /\ [][NextLayout]_vars

\* a read of such a table has settled
LayoutReadSettled == Settled("read") /\ result.ok /\ dbf.live

\* the records of the file the call had to return, by their number in the file
DueRecords ==
    {i \in ReadRange : dbf.includeDeletedRecords \/ FrameAt(disk.bytes, dbf, i)[1] # 42}

\* the value of field j of record i of the file, decoded at frame offset
\* 1 + (the sizes of the fields before j)
AtDeclaredOffset(i, j) ==
    DecodeField(dbf.fields[j], dbf.readMode, getEncoding(dbf.encoding, dbf.fields[j]),
                FrameAt(disk.bytes, dbf, i),
                calculateRecordLengthInBytes(SubSeq(dbf.fields, 1, j - 1)),
                dbf.version, NoMemo).value

\* every record the call had to return is returned, once, with its own deleted
\* flag; each field of a known type holds the value at its declared offset,
\* and a field of an unknown type is left out
DecodedAsDeclared ==
    /\ {result.records[k].idx : k \in 1..Len(result.records)} = DueRecords
    /\ Len(result.records) = Cardinality(DueRecords)
    /\ \A k \in 1..Len(result.records) :
          LET rec == result.records[k]
          IN  /\ rec.deleted = (FrameAt(disk.bytes, dbf, rec.idx)[1] = 42)
              /\ \A j \in 1..Len(dbf.fields) :
                    IF dbf.fields[j].type \in FieldTypes
                    THEN Get(rec.vals, dbf.fields[j].name) = AtDeclaredOffset(rec.idx, j)
                    ELSE dbf.fields[j].name \notin DOMAIN rec.vals

\* C26: in readRecords, for every field list a handle holds in strict or in
\* loose mode, field j of each record is decoded from frame offset 1 + (the
\* declared sizes of the fields before it) and the next record's deletion flag
\* is read record_length bytes after the current one; in loose mode a field of
\* unknown type is skipped by its declared size and left out of the record.
C26_FieldsAtDeclaredOffsets == LayoutReadSettled => DecodedAsDeclared

\* the field lists whose L and D fields have the sizes 1 and 8
SizesAsValidated ==
    \A j \in 1..Len(dbf.fields) :
        /\ dbf.fields[j].type = "L" => dbf.fields[j].size = 1
        /\ dbf.fields[j].type \in {"D", "T"} => dbf.fields[j].size = 8

\* the same for the field lists the validator would take, unknown types aside
C26_ValidatedSizesAtDeclaredOffsets ==
    (LayoutReadSettled /\ SizesAsValidated) => DecodedAsDeclared

\* in loose mode both records of a table with a field of unknown type were read
C26_UnknownTypeSkipped ==
    /\ LayoutReadSettled /\ dbf.readMode = "loose"
    /\ dbf.fields[1].type \notin FieldTypes
    /\ Len(result.records) = 2

\* in loose mode both records of a table with an L field of size 2 were read
C26_WideLogicalRead ==
    /\ LayoutReadSettled /\ dbf.readMode = "loose"
    /\ dbf.fields[1].type = "L" /\ dbf.fields[1].size = 2
    /\ Len(result.records) = 2

=============================================================================
